---- MODULE Spec2Model ----
(***************************************************************************)
(* Model of the classification-and-aggregation engine of bmir_dataviz:     *)
(* the benchmark taxonomy (benchmark_data.py), the Matcher is_benchmark,   *)
(* the Resolver is_libor / get_benchmark, the Tracker update               *)
(* parse_security, the Aggregator aggregate_trackers (analyse_data.py) and *)
(* the batch orchestration parse_file / parse_multi_files (main.py).       *)
(*                                                                         *)
(* Python strings that are upper-cased, split or compared as names, codes  *)
(* and ISINs are sequences of chunks: a chunk is one separator character   *)
(* (" ", "-", "+") or a maximal run of other characters, so two strings    *)
(* are equal exactly when their chunk sequences are.  Currencies, labels   *)
(* and dictionary keys are TLA+ strings.                                   *)
(*                                                                         *)
(* A call that raises is a step like any other: it leaves behind what the  *)
(* code had changed before the exception, and the exception's type.        *)
(*                                                                         *)
(* Specifications: Spec calls the Resolver on the module's taxonomy,       *)
(* SpecMatcher the Matcher on single descriptors, SpecTracker init_tracker *)
(* and parse_security in one process, SpecAgg aggregate_trackers on lists  *)
(* of trackers, SpecGroups aggregate_trackers on two parts of a list and   *)
(* then on the two results, SpecBatch runs parse_multi_files with its      *)
(* pool, SpecRun is a run of the calling process: direct calls and         *)
(* batches, SpecTaxonomy calls the Matcher and the Tracker update on one   *)
(* taxonomy, SpecProcess calls the Tracker update, init_tracker and        *)
(* aggregate_trackers in one process, and SpecCsv runs build_csv.          *)
(***************************************************************************)
EXTENDS Integers, Sequences, FiniteSets, TLC

VARIABLES
    libors,             \* benchmark_data.libors of the calling process
    non_libors,         \* benchmark_data.non_libors of the calling process
    currency_mismatch,  \* analyse_data.currency_mismatch
    prototype,          \* the two nested dicts of analyse_data.TRACKER_PROTOTYPE
    tracker,            \* the Tracker that parse_security is called on
    n_updates,          \* how many times parse_security was called on it
    trackers,           \* the list handed to aggregate_trackers
    agg,                \* what aggregate_trackers returned
    agg_pc,             \* "ready": trackers is to be aggregated; "done": it has been
    n_aggs,             \* how many aggregations the process has run
    last,               \* the most recent call: its arguments and what it returned
    learned,            \* history: the (descriptor, upper-cased name) pairs that a
                        \* direct Matcher call matched via root_name
    batch,              \* a parse_multi_files call: its files, its pool's processes,
                        \* its tasks, its manager lists and what it returned
    groups,             \* a caller that aggregates trackers in two groups and then
                        \* the two aggregates: how far it is and what it holds
    build               \* a build_csv call: its position, the files and dates of its
                        \* period and the rows it has written

Range(f) == {f[x] : x \in DOMAIN f}

\* Python's None and False where a string is expected (no string equals them).
None == <<"<None>">>
False == <<"<False>">>
\* 'currency': None of the catch-all descriptor; None as a match type or label.
NoCurrency == "None"

libors_data ==
    <<
    [root_names |-> <<<<<<"GBP">>, <<"LIBOR">>>>,
                <<<<"STERLING">>, <<"LIBOR">>>>,
                <<<<"GBR">>, <<"LIBOR">>>>>>,
     isins |-> {<<"GB0003117685">>,
                <<"GB0009655183">>,
                <<"GB00BD07ZZ10">>,
                <<"GB00BD080045">>},
     code |-> <<"LIBO">>,
     names |-> {<<"180DAY", " ", "GBP">>,
                <<"1MTH", " ", "GBP">>,
                <<"30DAY", " ", "GBP">>,
                <<"3MTH", " ", "GBP">>,
                <<"6MTH", " ", "GBP">>,
                <<"90DAY", " ", "GBP">>,
                <<"BP0003M">>,
                <<"GBP", " ", "LIBOR">>,
                <<"OFFERED", " ", "GBP", " ", "RATE">>},
     currency |-> "GBP"],
    [root_names |-> <<<<<<"USD">>, <<"LIBOR">>>>,
                <<<<"US">>, <<"LIBOR">>>>,
                <<<<"U.S.$">>, <<"LIBOR">>>>>>,
     isins |-> {<<"GB0003758058">>,
                <<"GB0003758389">>,
                <<"GB0003764668">>,
                <<"GB0003766598">>,
                <<"GB00B1316Y29">>,
                <<"GB00B5M93C29">>,
                <<"GB00B5MPDP30">>,
                <<"GB00BD080607">>,
                <<"GB00BD080714">>,
                <<"GB00BD080821">>,
                <<"GB00BD080938">>},
     code |-> <<"LIBO">>,
     names |-> {<<"180DAY", " ", "USD">>,
                <<"1MTH", " ", "USD">>,
                <<"30DAY", " ", "USD">>,
                <<"3MTH", " ", "USD">>,
                <<"6MTH", " ", "USD">>,
                <<"90DAY", " ", "USD">>,
                <<"OFFERED", " ", "USD", " ", "RATE">>,
                <<"US0003M">>,
                <<"USD", " ", "LIBOR">>},
     currency |-> "USD"],
    [root_names |-> <<<<<<"CHF">>, <<"LIBOR">>>>,
                <<<<"SWISS">>, <<"FRANC">>, <<"LIBOR">>>>>>,
     isins |-> {<<"GB00BD080C69">>,
                <<"GB00BD080F90">>},
     code |-> <<"LIBO">>,
     names |-> {<<"CHF", " ", "LIBOR">>},
     currency |-> "CHF"],
    [root_names |-> <<<<<<"EUR">>, <<"LIBOR">>>>,
                <<<<"EURO">>, <<"LIBOR">>>>>>,
     isins |-> {<<"GB0004356027">>,
                <<"GB0004356795">>,
                <<"GB0004357090">>,
                <<"GB0004359369">>,
                <<"GB00BBD82B22">>,
                <<"GB00BBD82C39">>,
                <<"GB00BD080482">>},
     code |-> <<"LIBO">>,
     names |-> {<<"180DAY", " ", "EUR">>,
                <<"3MTH", " ", "EUR">>,
                <<"6MTH", " ", "EUR">>,
                <<"EUR", " ", "LIBOR">>},
     currency |-> "EUR"],
    [root_names |-> <<<<<<"JPY">>, <<"LIBOR">>>>,
                <<<<"YEN">>, <<"LIBOR">>>>>>,
     isins |-> {},
     code |-> <<"LIBO">>,
     names |-> {<<"JPY", " ", "LIBOR">>},
     currency |-> "JPY"],
    [root_names |-> <<<<<<"LIBOR">>>>>>,
     isins |-> {},
     code |-> <<"LIBO">>,
     names |-> {<<"LIBOR">>,
                <<"LIBOR01">>,
                <<"LONDON", " ", "INTERBANK", " ", "MARKET">>},
     currency |-> NoCurrency]
    >>

non_libors_keys ==
    <<"EURIBOR", "EONIA", "SONIA", "TIBOR", "TONAR", "ESTR", "SOFR", "SARON">>

non_libors_data ==
    ("EURIBOR" :> [root_names |-> <<<<<<"EURIBOR">>>>,
                <<<<"EUR">>, <<"INTERBANK">>, <<"OFFERED">>>>,
                <<<<"EURIB">>>>,
                <<<<"EURIOBOR">>>>>>,
        isins |-> {<<"EU0005301658">>,
                <<"EU0009652783">>,
                <<"EU0009652791">>,
                <<"EU0009652809">>,
                <<"EU0009652841">>,
                <<"EU0009652890">>,
                <<"EU0009659937">>,
                <<"EU0009678507">>,
                <<"EU000A0X7128">>,
                <<"EU000A0X7136">>,
                <<"EU000A0X7144">>,
                <<"EU000A0X7151">>,
                <<"EU000A1L18K0">>,
                <<"EU000A1L18L8">>,
                <<"EU000A1L18R5">>,
                <<"EU000A1L18V7">>},
        code |-> <<"EURI">>,
        names |-> {<<"180Day", " ", "EUR">>,
                <<"1YR", " ", "EUR">>,
                <<"EURI">>,
                <<"EURIBOR">>,
                <<"EUROBOR">>},
        currency |-> "EUR"])
    @@ ("EONIA" :> [root_names |-> <<<<<<"EONIA">>>>,
                <<<<"EURO">>, <<"OVERNIGHT">>, <<"INDEX">>, <<"AVERAGE">>>>>>,
        isins |-> {<<"EU0009659945">>,
                <<"EU0009689967">>,
                <<"EU0009689975">>},
        code |-> <<"EONA">>,
        names |-> {<<"EONIA">>,
                <<"EURO", " ", "OVERNIGHT", " ", "INDEX", " ", "AVERAGE">>},
        currency |-> "EUR"])
    @@ ("SONIA" :> [root_names |-> <<<<<<"SONIA">>>>,
                <<<<"STERLING">>, <<"OVERNIGHT">>, <<"INDEX">>, <<"AVERAGE">>>>>>,
        isins |-> {<<"GB00B56Z6W79">>},
        code |-> <<"SONA">>,
        names |-> {<<"SONIA">>,
                <<"STERLING", " ", "OVERNIGHT", " ", "INTERB">>},
        currency |-> "GBP"])
    @@ ("TIBOR" :> [root_names |-> <<<<<<"TIBOR">>>>,
                <<<<"TOKYO">>, <<"INTERBANK">>, <<"OFFERED">>>>>>,
        isins |-> {},
        code |-> <<"TIBO">>,
        names |-> {<<"TIBOR">>},
        currency |-> "JPY"])
    @@ ("TONAR" :> [root_names |-> <<<<<<"TONAR">>>>,
                <<<<"TOKYO">>, <<"OVERNIGHT">>, <<"AVERAGE">>>>>>,
        isins |-> {},
        code |-> False,
        names |-> {<<"TONAR">>},
        currency |-> "JPY"])
    @@ ("ESTR" :> [root_names |-> <<<<<<"ESTR">>>>,
                <<<<"EURO">>, <<"SHORT">>, <<"TERM">>, <<"RATE">>>>,
                <<<<"EURO">>, <<"SHORT", "-", "TERM">>, <<"RATE">>>>>>,
        isins |-> {<<"EU000A2X2A25">>},
        code |-> <<"ESTR">>,
        names |-> {<<"€STR">>},
        currency |-> "GBP"])
    @@ ("SOFR" :> [root_names |-> <<<<<<"SOFR">>>>,
                <<<<"SECURED">>, <<"OVERNIGHT">>, <<"FINANCING">>, <<"RATE">>>>>>,
        isins |-> {},
        code |-> <<"SOFR">>,
        names |-> {<<"1DAY", " ", "USD", " ", "SECURED", " ", "OVERNIGH">>,
                <<"SECURED", " ", "OVERNIGHT", " ", "FINANCING", " ", "RATE">>,
                <<"SOFR">>},
        currency |-> "USD"])
    @@ ("SARON" :> [root_names |-> <<<<<<"SARON">>>>,
                <<<<"S">>, <<"W">>, <<"I">>, <<"S">>, <<"S">>, <<" ">>, <<"A">>, <<"V">>, <<"E">>, <<"R">>, <<"A">>, <<"G">>, <<"E">>, <<" ">>, <<"R">>, <<"A">>, <<"T">>, <<"E">>, <<" ">>, <<"O">>, <<"V">>, <<"E">>, <<"R">>, <<"N">>, <<"I">>, <<"G">>, <<"H">>, <<"T">>>>>>,
        isins |-> {<<"CH0049613687">>},
        code |-> False,
        names |-> {<<"SARON">>,
                <<"SWISS", " ", "AVERAGE", " ", "RATE", " ", "OVERNIGHT">>},
        currency |-> "CHF"])

\* benchmark_names: the labels of the currency-carrying LIBOR descriptors in
\* declared order, then the other benchmarks' keys sorted.
RECURSIVE libor_names(_)
libor_names(i) ==
    IF i > Len(libors_data) THEN <<>>
    ELSE (IF libors_data[i].currency # NoCurrency
          THEN <<libors_data[i].currency \o " LIBOR">> ELSE <<>>) \o libor_names(i + 1)

benchmark_names ==
    libor_names(1) \o <<"EONIA", "ESTR", "EURIBOR", "SARON", "SOFR", "SONIA", "TIBOR", "TONAR">>

(***************************************************************************)
(* Strings                                                                 *)
(***************************************************************************)
Separators == {" ", "-", "+"}

\* str.upper() on one chunk: the chunks with lower-case letters that occur in
\* the taxonomy or in the inputs; every other chunk is already upper case.
UpperChunk(c) ==
    CASE c = "180Day" -> "180DAY"
      [] c = "usd" -> "USD"
      [] c = "libor" -> "LIBOR"
      [] c = "3m" -> "3M"
      [] c = "Euribor" -> "EURIBOR"
      [] c = "6m" -> "6M"
      [] c = "libo" -> "LIBO"
      [] c = "foo" -> "FOO"
      [] c = "swiss" -> "SWISS"
      [] c = "average" -> "AVERAGE"
      [] c = "rate" -> "RATE"
      [] c = "overnight" -> "OVERNIGHT"
      [] OTHER -> c

upper(s) == [i \in 1..Len(s) |-> UpperChunk(s[i])]

\* re.split('[ \-+]', name): the runs between separators, empty runs included.
RECURSIVE re_split(_)
re_split(s) ==
    IF \A i \in 1..Len(s) : s[i] \notin Separators THEN <<s>>
    ELSE LET i == CHOOSE j \in 1..Len(s) :
                      /\ s[j] \in Separators
                      /\ \A k \in 1..(j - 1) : s[k] \notin Separators
         IN <<SubSeq(s, 1, i - 1)>> \o re_split(SubSeq(s, i + 1, Len(s)))

\* dict.get(key): None when the key is missing.
Get(d, k) == IF k \in DOMAIN d THEN d[k] ELSE None

\* Truth value of an argument passed as check_code: a bool ("True"/"False") or,
\* from get_benchmark, the security's currency.
Truthy(v) == v \notin {"False", "None", ""}

(***************************************************************************)
(* Matcher                                                                 *)
(***************************************************************************)
\* any(all(word.upper() in re.split(..., name) for word in root_name) ...)
root_name_match(root_names, name) ==
    \E r \in 1..Len(root_names) :
        \A w \in 1..Len(root_names[r]) :
            upper(root_names[r][w]) \in Range(re_split(name))

\* is_benchmark with a fault, to test the properties: the code rule applies
\* whatever check_code is.
is_benchmark_ignoring_check_code(bm_data, ir_data, check_code) ==
    LET name == Get(ir_data, "index_name")
        code == Get(ir_data, "index_code")
        isin == Get(ir_data, "index_isin")
        NAME == upper(name)
    IN  IF code = bm_data.code
        THEN [is_match |-> TRUE, match_type |-> "code", bm_data |-> bm_data]
        ELSE IF isin \in bm_data.isins
        THEN [is_match |-> TRUE, match_type |-> "isin", bm_data |-> bm_data]
        ELSE IF name = None \/ name = <<>>
        THEN [is_match |-> FALSE, match_type |-> "None", bm_data |-> bm_data]
        ELSE IF NAME \in (bm_data.names \cup bm_data.isins) \/ NAME = bm_data.code
        THEN [is_match |-> TRUE, match_type |-> "name", bm_data |-> bm_data]
        ELSE IF root_name_match(bm_data.root_names, NAME)
        THEN [is_match |-> TRUE, match_type |-> "root_name",
              bm_data |-> [bm_data EXCEPT !.names = @ \cup {NAME}]]
        ELSE [is_match |-> FALSE, match_type |-> "None", bm_data |-> bm_data]

\* is_benchmark with a fault, to test the properties: the name is learned as it
\* was written, not upper-cased.
is_benchmark_learning_raw_name(bm_data, ir_data, check_code) ==
    LET name == Get(ir_data, "index_name")
        code == Get(ir_data, "index_code")
        isin == Get(ir_data, "index_isin")
        NAME == upper(name)
    IN  IF Truthy(check_code) /\ code = bm_data.code
        THEN [is_match |-> TRUE, match_type |-> "code", bm_data |-> bm_data]
        ELSE IF isin \in bm_data.isins
        THEN [is_match |-> TRUE, match_type |-> "isin", bm_data |-> bm_data]
        ELSE IF name = None \/ name = <<>>
        THEN [is_match |-> FALSE, match_type |-> "None", bm_data |-> bm_data]
        ELSE IF NAME \in (bm_data.names \cup bm_data.isins) \/ NAME = bm_data.code
        THEN [is_match |-> TRUE, match_type |-> "name", bm_data |-> bm_data]
        ELSE IF root_name_match(bm_data.root_names, NAME)
        THEN [is_match |-> TRUE, match_type |-> "root_name",
              bm_data |-> [bm_data EXCEPT !.names = @ \cup {name}]]
        ELSE [is_match |-> FALSE, match_type |-> "None", bm_data |-> bm_data]

\* is_benchmark with a fault, to test the properties: an ISIN that matched is
\* added to the names.
is_benchmark_learning_on_isin_match(bm_data, ir_data, check_code) ==
    LET name == Get(ir_data, "index_name")
        code == Get(ir_data, "index_code")
        isin == Get(ir_data, "index_isin")
        NAME == upper(name)
    IN  IF Truthy(check_code) /\ code = bm_data.code
        THEN [is_match |-> TRUE, match_type |-> "code", bm_data |-> bm_data]
        ELSE IF isin \in bm_data.isins
        THEN [is_match |-> TRUE, match_type |-> "isin",
              bm_data |-> [bm_data EXCEPT !.names = @ \cup {isin}]]
        ELSE IF name = None \/ name = <<>>
        THEN [is_match |-> FALSE, match_type |-> "None", bm_data |-> bm_data]
        ELSE IF NAME \in (bm_data.names \cup bm_data.isins) \/ NAME = bm_data.code
        THEN [is_match |-> TRUE, match_type |-> "name", bm_data |-> bm_data]
        ELSE IF root_name_match(bm_data.root_names, NAME)
        THEN [is_match |-> TRUE, match_type |-> "root_name",
              bm_data |-> [bm_data EXCEPT !.names = @ \cup {NAME}]]
        ELSE [is_match |-> FALSE, match_type |-> "None", bm_data |-> bm_data]

\* is_benchmark with a fault, to test the properties: the learned name replaces
\* the names the descriptor had.
is_benchmark_forgetting_names(bm_data, ir_data, check_code) ==
    LET name == Get(ir_data, "index_name")
        code == Get(ir_data, "index_code")
        isin == Get(ir_data, "index_isin")
        NAME == upper(name)
    IN  IF Truthy(check_code) /\ code = bm_data.code
        THEN [is_match |-> TRUE, match_type |-> "code", bm_data |-> bm_data]
        ELSE IF isin \in bm_data.isins
        THEN [is_match |-> TRUE, match_type |-> "isin", bm_data |-> bm_data]
        ELSE IF name = None \/ name = <<>>
        THEN [is_match |-> FALSE, match_type |-> "None", bm_data |-> bm_data]
        ELSE IF NAME \in (bm_data.names \cup bm_data.isins) \/ NAME = bm_data.code
        THEN [is_match |-> TRUE, match_type |-> "name", bm_data |-> bm_data]
        ELSE IF root_name_match(bm_data.root_names, NAME)
        THEN [is_match |-> TRUE, match_type |-> "root_name",
              bm_data |-> [bm_data EXCEPT !.names = {NAME}]]
        ELSE [is_match |-> FALSE, match_type |-> "None", bm_data |-> bm_data]

is_benchmark(bm_data, ir_data, check_code) ==
    LET name == Get(ir_data, "index_name")
        code == Get(ir_data, "index_code")
        isin == Get(ir_data, "index_isin")
        NAME == upper(name)
    IN  IF Truthy(check_code) /\ code = bm_data.code
        THEN [is_match |-> TRUE, match_type |-> "code", bm_data |-> bm_data]
        ELSE IF isin \in bm_data.isins
        THEN [is_match |-> TRUE, match_type |-> "isin", bm_data |-> bm_data]
        ELSE IF name = None \/ name = <<>>
        THEN [is_match |-> FALSE, match_type |-> "None", bm_data |-> bm_data]
        ELSE IF NAME \in (bm_data.names \cup bm_data.isins) \/ NAME = bm_data.code
        THEN [is_match |-> TRUE, match_type |-> "name", bm_data |-> bm_data]
        ELSE IF root_name_match(bm_data.root_names, NAME)
        THEN [is_match |-> TRUE, match_type |-> "root_name",
              bm_data |-> [bm_data EXCEPT !.names = @ \cup {NAME}]]
        ELSE [is_match |-> FALSE, match_type |-> "None", bm_data |-> bm_data]

(***************************************************************************)
(* Resolver                                                                *)
(***************************************************************************)
\* The loop of is_libor from descriptor i on.  ret is the returned currency, or
\* "False".  Only the descriptor that matched can have been changed.
RECURSIVE is_libor_from(_, _, _, _)
is_libor_from(i, ir_data, currency, libors_arg) ==
    IF i > Len(libors_arg)
    THEN [ret |-> "False", match_type |-> "None", libors |-> libors_arg]
    ELSE LET bm_data == libors_arg[i]
             check_code == IF bm_data.currency = NoCurrency THEN "True" ELSE "False"
             m == is_benchmark(bm_data, ir_data, check_code)
         IN  IF m.is_match
             THEN [ret |-> IF bm_data.currency = NoCurrency THEN currency
                           ELSE bm_data.currency,
                   match_type |-> m.match_type,
                   libors |-> [libors_arg EXCEPT ![i] = m.bm_data]]
             ELSE is_libor_from(i + 1, ir_data, currency, libors_arg)

\* is_libor with a fault, to test the properties: the catch-all descriptor is
\* tried before the currency-carrying ones.
is_libor_catch_all_first(ir_data, currency, libors_arg) ==
    LET i == Len(libors_arg)
        m == is_benchmark(libors_arg[i], ir_data, "True")
    IN  IF m.is_match
        THEN [ret |-> currency, match_type |-> m.match_type,
              libors |-> [libors_arg EXCEPT ![i] = m.bm_data]]
        ELSE is_libor_from(1, ir_data, currency, libors_arg)

\* is_libor with a fault, to test the properties: a name matched via root_name
\* is added to the names of the first descriptor, whichever has matched.
is_libor_learning_in_first_descriptor(ir_data, currency, libors_arg) ==
    LET r == is_libor_from(1, ir_data, currency, libors_arg)
    IN  IF r.match_type = "root_name"
        THEN [r EXCEPT !.libors =
                 [libors_arg EXCEPT ![1].names = @ \cup {upper(ir_data["index_name"])}]]
        ELSE r

\* is_libor with a fault, to test the properties: the currency of the security
\* is returned whichever descriptor has matched.
is_libor_guessing_every_currency(ir_data, currency, libors_arg) ==
    LET r == is_libor_from(1, ir_data, currency, libors_arg)
    IN  IF r.ret = "False" THEN r ELSE [r EXCEPT !.ret = currency]

is_libor(ir_data, currency, libors_arg) == is_libor_from(1, ir_data, currency, libors_arg)

\* The loop over non_libors of get_benchmark from key number i on; the
\* security's currency is what is passed as check_code.
RECURSIVE non_libor_from(_, _, _, _)
non_libor_from(i, ir_data, currency, non_libors_arg) ==
    IF i > Len(non_libors_keys)
    THEN [benchmark |-> "None", match_type |-> "None", bm_currency |-> "None",
          non_libors |-> non_libors_arg]
    ELSE LET bm == non_libors_keys[i]
             m == is_benchmark(non_libors_arg[bm], ir_data, currency)
         IN  IF m.is_match
             THEN [benchmark |-> bm, match_type |-> m.match_type,
                   bm_currency |-> non_libors_arg[bm].currency,
                   non_libors |-> [non_libors_arg EXCEPT ![bm] = m.bm_data]]
             ELSE non_libor_from(i + 1, ir_data, currency, non_libors_arg)

\* isin is None unless the caller passes it; mismatch is currency_mismatch.
get_benchmark(ir_data, currency, libors_arg, non_libors_arg, isin, mismatch) ==
    LET l == is_libor(ir_data, currency, libors_arg)
        n == non_libor_from(1, ir_data, currency, non_libors_arg)
        found == IF Truthy(l.ret)
                 THEN [benchmark |-> l.ret \o " LIBOR", match_type |-> l.match_type,
                       bm_currency |-> l.ret, non_libors |-> non_libors_arg]
                 ELSE n
    IN  IF found.benchmark # "None"
        THEN [benchmark |-> found.benchmark, match_type |-> found.match_type,
              libors |-> l.libors, non_libors |-> found.non_libors,
              currency_mismatch |->
                  IF isin # None /\ found.bm_currency # currency
                  THEN [k \in DOMAIN mismatch \cup {isin} |->
                           IF k = isin THEN <<found.bm_currency, currency>>
                           ELSE mismatch[k]]
                  ELSE mismatch]
        ELSE [benchmark |-> "None", match_type |-> "None",
              libors |-> l.libors, non_libors |-> found.non_libors,
              currency_mismatch |-> mismatch]

(***************************************************************************)
(* Tracker                                                                 *)
(***************************************************************************)
IdentifierKinds == {"index_name", "index_code", "index_isin"}

\* Line 233 reads benchmark_data.bm_names.  benchmark_data defines no bm_names
\* (the list is benchmark_names, lines 295-296), so evaluating the dict raises
\* AttributeError when analyse_data is imported.  The functions below are
\* modelled as they run once the name is read as benchmark_names, which is
\* what the keys are taken to be.  Durations (timedelta) are whole days.
TRACKER_PROTOTYPE ==
    [last_isin |-> None,
     floating |-> 0,
     fixed |-> 0,
     floating_uncat |-> [k \in IdentifierKinds |-> <<>>],
     benchmark_data |-> [bm \in Range(benchmark_names) |->
                            [count |-> 0, agg_maturity |-> 0, agg_nominal |-> 0]],
     duplicates |-> 0,
     matured |-> 0,
     delisted |-> 0,
     zero_nominal |-> 0]

\* dict.copy() is shallow: the new dict has its own scalar entries, and its
\* floating_uncat and benchmark_data ARE the prototype's two nested dicts.  A
\* tracker with shared = TRUE reads and writes them in the process's prototype
\* (proto); one rebuilt from a pickle (shared = FALSE) carries its own.
init_tracker ==
    [last_isin |-> TRACKER_PROTOTYPE.last_isin,
     floating |-> TRACKER_PROTOTYPE.floating,
     fixed |-> TRACKER_PROTOTYPE.fixed,
     duplicates |-> TRACKER_PROTOTYPE.duplicates,
     matured |-> TRACKER_PROTOTYPE.matured,
     delisted |-> TRACKER_PROTOTYPE.delisted,
     zero_nominal |-> TRACKER_PROTOTYPE.zero_nominal,
     shared |-> TRUE,
     floating_uncat |-> TRACKER_PROTOTYPE.floating_uncat,
     benchmark_data |-> TRACKER_PROTOTYPE.benchmark_data]

floating_uncat_of(t, proto) == IF t.shared THEN proto.floating_uncat ELSE t.floating_uncat
benchmark_data_of(t, proto) == IF t.shared THEN proto.benchmark_data ELSE t.benchmark_data

\* What a manager list holds after append(t): the pickled tracker, nested dicts
\* included, which no longer shares anything with the prototype.
pickled(t, proto) ==
    [t EXCEPT !.shared = FALSE,
              !.floating_uncat = floating_uncat_of(t, proto),
              !.benchmark_data = benchmark_data_of(t, proto)]

ScalarKeys == {"floating", "fixed", "duplicates", "matured", "delisted", "zero_nominal"}

scalar(t, k) ==
    CASE k = "floating" -> t.floating
      [] k = "fixed" -> t.fixed
      [] k = "duplicates" -> t.duplicates
      [] k = "matured" -> t.matured
      [] k = "delisted" -> t.delisted
      [] k = "zero_nominal" -> t.zero_nominal

(***************************************************************************)
(* Aggregator                                                              *)
(***************************************************************************)
\* sum(values, start=0) of a sequence of numbers.
RECURSIVE sum(_)
sum(values) == IF values = <<>> THEN 0 ELSE Head(values) + sum(Tail(values))

\* dict.update with a fault, to test the properties: the counts of a key that
\* both dicts hold are added.
update_adding(d, other) ==
    [x \in DOMAIN d \cup DOMAIN other |->
        (IF x \in DOMAIN other THEN other[x] ELSE 0) + (IF x \in DOMAIN d THEN d[x] ELSE 0)]

\* dict.update: the entries of other replace those of d with the same key.
update(d, other) ==
    [x \in DOMAIN d \cup DOMAIN other |-> IF x \in DOMAIN other THEN other[x] ELSE d[x]]

\* The last loop of aggregate_trackers from tracker i on; uncat is
\* agg['floating_uncat'], which is the prototype's dict and so also the dict of
\* every tracker that shares the prototype's.
RECURSIVE update_uncat_from(_, _, _)
update_uncat_from(i, trackers_arg, uncat) ==
    IF i > Len(trackers_arg) THEN uncat
    ELSE LET t == trackers_arg[i]
             t_uncat == IF t.shared THEN uncat ELSE t.floating_uncat
         IN  update_uncat_from(i + 1, trackers_arg,
                               [k \in DOMAIN uncat |->
                                   IF k \in DOMAIN t_uncat THEN update(uncat[k], t_uncat[k])
                                   ELSE uncat[k]])

\* aggregate_trackers with a fault, to test the properties: the summed nominal
\* is computed from the counts.
aggregate_trackers_nominal_from_count(trackers_arg, proto) ==
    LET n == Len(trackers_arg)
        count_of(bm) ==
            sum([i \in 1..n |-> benchmark_data_of(trackers_arg[i], proto)[bm].count])
        nominal_of(bm) ==
            sum([i \in 1..n |-> benchmark_data_of(trackers_arg[i], proto)[bm].agg_nominal])
        maturity_of(bm) ==
            sum([i \in 1..n |-> benchmark_data_of(trackers_arg[i], proto)[bm].agg_maturity])
        total(k) == sum([i \in 1..n |-> scalar(trackers_arg[i], k)])
    IN  [agg |-> [init_tracker EXCEPT !.floating = total("floating"),
                                      !.fixed = total("fixed"),
                                      !.duplicates = total("duplicates"),
                                      !.matured = total("matured"),
                                      !.delisted = total("delisted"),
                                      !.zero_nominal = total("zero_nominal")],
         proto |-> [floating_uncat |-> update_uncat_from(1, trackers_arg, proto.floating_uncat),
                    benchmark_data |-> [bm \in DOMAIN proto.benchmark_data |->
                                           [count |-> count_of(bm),
                                            agg_maturity |-> maturity_of(bm),
                                            agg_nominal |-> count_of(bm)]]]]

\* Returns the aggregate and the prototype's nested dicts as the call leaves them.
aggregate_trackers(trackers_arg, proto) ==
    LET n == Len(trackers_arg)
        count_of(bm) ==
            sum([i \in 1..n |-> benchmark_data_of(trackers_arg[i], proto)[bm].count])
        nominal_of(bm) ==
            sum([i \in 1..n |-> benchmark_data_of(trackers_arg[i], proto)[bm].agg_nominal])
        maturity_of(bm) ==
            sum([i \in 1..n |-> benchmark_data_of(trackers_arg[i], proto)[bm].agg_maturity])
        total(k) == sum([i \in 1..n |-> scalar(trackers_arg[i], k)])
    IN  [agg |-> [init_tracker EXCEPT !.floating = total("floating"),
                                      !.fixed = total("fixed"),
                                      !.duplicates = total("duplicates"),
                                      !.matured = total("matured"),
                                      !.delisted = total("delisted"),
                                      !.zero_nominal = total("zero_nominal")],
         proto |-> [floating_uncat |-> update_uncat_from(1, trackers_arg, proto.floating_uncat),
                    benchmark_data |-> [bm \in DOMAIN proto.benchmark_data |->
                                           [count |-> count_of(bm),
                                            agg_maturity |-> maturity_of(bm),
                                            agg_nominal |-> nominal_of(bm)]]]]

\* Rate-descriptor dicts as get_interest_rate builds them (one identifier) and
\* as a direct caller may build them (none, or two).
name_ir(name) == [k \in {"index_name"} |-> name]
code_ir(code) == [k \in {"index_code"} |-> code]
isin_ir(isin) == [k \in {"index_isin"} |-> isin]
two_ir(k1, v1, k2, v2) == [k \in {k1, k2} |-> IF k = k1 THEN v1 ELSE v2]

(***************************************************************************)
(* Security records and Tracker update                                     *)
(***************************************************************************)
\* A RefData element s: [isin, currency, nominal, maturity_date, term_date,
\* rate].  Dates are day numbers; term_date is <<>> when the element has no
\* TermntnDt child and <<d>> otherwise; rate is the child of IntrstRate:
\* [tag, ref, text] with tag "Fxd", "Fltg" or another tag, ref the tag of the
\* RefRate child ("Nm", "ISIN", "Indx") and text its text.

\* TODAY_UTC, the default assess_date, as a day number.
TODAY_UTC == 10
\* timedelta(): a duration of zero days.
ZERO_TIME == [type |-> "timedelta", value |-> 0]

\* A datetime passed as assess_date.
datetime(d) == [is_datetime |-> TRUE, days |-> d]
\* Any other object passed as assess_date.
not_a_datetime == [is_datetime |-> FALSE, days |-> 0]

get_isin(elem) == elem.isin

get_tv_dates(elem) == elem.term_date

\* Line 92 reads the name s, which is neither a parameter nor a local of
\* get_maturity nor a global of the module: the call raises NameError whatever
\* elem and from_date are.  Its result would have been a float (a timedelta
\* divided by a timedelta, divided by 354.25).
get_maturity(elem, from_date) == [err |-> "NameError", type |-> "float", value |-> 0]

get_nominal_amount(elem) == elem.nominal

get_currency(elem) == IF elem.currency = "DEM" THEN "EUR" ELSE elem.currency

\* ir_data holds the index_* keys; fixed_floating is returned beside it.
get_interest_rate(elem) ==
    IF elem.rate.tag = "Fxd"
    THEN [err |-> "None", fixed_floating |-> "fixed", ir_data |-> <<>>]
    ELSE IF elem.rate.tag = "Fltg"
    THEN [err |-> "None", fixed_floating |-> "floating",
          ir_data |-> IF elem.rate.ref = "Nm" THEN name_ir(elem.rate.text)
                      ELSE IF elem.rate.ref = "ISIN" THEN isin_ir(elem.rate.text)
                      ELSE IF elem.rate.ref = "Indx" THEN code_ir(elem.rate.text)
                      ELSE <<>>]
    ELSE [err |-> "ValueError", fixed_floating |-> "None", ir_data |-> <<>>]

\* Lines 286-288: one more occurrence of each identifier ir_data carries.
count_uncat(uncat, ir_data) ==
    [k \in DOMAIN uncat |->
        IF k \in DOMAIN ir_data
        THEN [x \in DOMAIN uncat[k] \cup {ir_data[k]} |->
                 IF x = ir_data[k]
                 THEN (IF x \in DOMAIN uncat[k] THEN uncat[k][x] ELSE 0) + 1
                 ELSE uncat[k][x]]
        ELSE uncat[k]]

\* Lines 270-290, for a maturity that has been computed and compared.
parse_security_rest(s, t, maturity, libors_arg, non_libors_arg, proto, mismatch) ==
    LET out(t2, e) == [err |-> e, tracker |-> t2, proto |-> proto, libors |-> libors_arg,
                       non_libors |-> non_libors_arg, currency_mismatch |-> mismatch]
        ir == get_interest_rate(s)
        currency == get_currency(s)
        r == get_benchmark(ir.ir_data, currency, libors_arg, non_libors_arg, None, mismatch)
        floating == [t EXCEPT !.floating = @ + 1]
    IN  IF maturity.value < ZERO_TIME.value
        THEN out([t EXCEPT !.matured = @ + 1], "None")
        ELSE IF get_nominal_amount(s) = 0
        THEN out([t EXCEPT !.zero_nominal = @ + 1], "None")
        ELSE IF ir.err # "None"
        THEN out(t, ir.err)
        ELSE IF ir.fixed_floating # "floating"
        THEN out([t EXCEPT !.fixed = @ + 1], "None")
        ELSE IF r.benchmark # "None"
        THEN \* line 282: tracker['benchmark_data'][bm] += 1 adds 1 to a dict
             [err |-> IF r.benchmark \in DOMAIN benchmark_data_of(floating, proto)
                      THEN "TypeError" ELSE "KeyError",
              tracker |-> floating, proto |-> proto, libors |-> r.libors,
              non_libors |-> r.non_libors, currency_mismatch |-> r.currency_mismatch]
        ELSE [err |-> "None",
              tracker |-> IF floating.shared THEN floating
                          ELSE [floating EXCEPT
                                   !.floating_uncat = count_uncat(@, ir.ir_data)],
              proto |-> IF floating.shared
                        THEN [proto EXCEPT !.floating_uncat = count_uncat(@, ir.ir_data)]
                        ELSE proto,
              libors |-> r.libors, non_libors |-> r.non_libors,
              currency_mismatch |-> r.currency_mismatch]

\* Returns what the call leaves behind: err is "None" when it returns and the
\* exception's type when it raises.
parse_security(s, tracker_arg, assess_date, libors_arg, non_libors_arg, proto, mismatch) ==
    LET out(t, e) == [err |-> e, tracker |-> t, proto |-> proto, libors |-> libors_arg,
                      non_libors |-> non_libors_arg, currency_mismatch |-> mismatch]
        term_date == get_tv_dates(s)
        isin == get_isin(s)
        seen == [tracker_arg EXCEPT !.last_isin = isin]
        maturity == get_maturity(s, assess_date)
    IN  IF term_date # <<>> /\ ~assess_date.is_datetime
        THEN out(tracker_arg, "TypeError")   \* datetime < an object of another type
        ELSE IF term_date # <<>> /\ term_date[1] < assess_date.days
        THEN out([tracker_arg EXCEPT !.delisted = @ + 1], "None")
        ELSE IF isin = tracker_arg.last_isin
        THEN out([tracker_arg EXCEPT !.duplicates = @ + 1], "None")
        ELSE IF maturity.err # "None"
        THEN out(seen, maturity.err)
        ELSE IF maturity.type # ZERO_TIME.type
        THEN out(seen, "TypeError")          \* line 269: float < timedelta
        ELSE parse_security_rest(s, seen, maturity, libors_arg, non_libors_arg,
                                 proto, mismatch)

(***************************************************************************)
(* Inputs of the calls                                                     *)
(***************************************************************************)
NameInputs ==
    {<<"3MTH", " ", "GBP">>,
     <<"usd", " ", "libor", " ", "3m">>,
     <<"USD", " ", "LIBOR", " ", "3M">>,
     <<"Euribor", "-", "6m">>,
     <<"libo">>,
     <<"foo">>,
     <<"swiss", " ", "average", " ", "rate", " ", "overnight", " ", "3m">>,
     <<>>}

IrInputs ==
    {<<>>}
    \cup {name_ir(n) : n \in NameInputs}
    \cup {code_ir(<<"LIBO">>), code_ir(<<"EURI">>)}
    \cup {isin_ir(<<"GB00BD080045">>), isin_ir(<<"EU0009652783">>)}
    \cup {two_ir("index_code", <<"LIBO">>, "index_isin", <<"GB00BD080045">>),
          two_ir("index_code", <<"LIBO">>, "index_name", <<"3MTH", " ", "GBP">>),
          two_ir("index_isin", <<"EU0009652783">>, "index_name", <<"foo">>),
          two_ir("index_code", <<"EURI">>, "index_name", <<"usd", " ", "libor", " ", "3m">>)}

\* Security currencies (ISO codes, as the FIRDS schema requires).
CurrencyInputs == {"GBP", "SEK"}
\* The security's ISIN passed to get_benchmark, None by default.
SecIsinInputs == {None, <<"XS0000000001">>}

\* The descriptors the Matcher is called on directly: a currency-carrying and the
\* catch-all LIBOR descriptor, and benchmarks with a code, without one (False),
\* with a hyphenated root word and with a root name that is a plain string.
MatcherLibors == {1, 2, 6}
MatcherNonLibors == {"EURIBOR", "TONAR", "ESTR", "SARON"}

\* Securities: two ISINs; no termination date, one before and one after the
\* assessment date; and the rate, nominal amount and maturity date together.
RateInputs ==
    {[tag |-> "Fltg", ref |-> "Nm", text |-> <<"3MTH", " ", "GBP">>],
     [tag |-> "Fltg", ref |-> "Nm", text |-> <<"foo">>],
     [tag |-> "Fltg", ref |-> "Nm", text |-> <<"usd", " ", "libor", " ", "3m">>],
     [tag |-> "Fxd", ref |-> "", text |-> <<"1.5">>],
     [tag |-> "Other", ref |-> "", text |-> <<>>]}

SecurityInputs ==
    {[isin |-> i, currency |-> "GBP", nominal |-> p[1], maturity_date |-> p[2],
      term_date |-> t, rate |-> r] :
        i \in {<<"XS0000000001">>, <<"XS0000000002">>},
        t \in {<<>>, <<TODAY_UTC - 5>>, <<TODAY_UTC + 5>>},
        p \in {<<100, TODAY_UTC + 400>>, <<0, TODAY_UTC + 400>>, <<100, TODAY_UTC - 3>>},
        r \in RateInputs}

NoSecurity ==
    [isin |-> None, currency |-> "", nominal |-> 0, maturity_date |-> 0,
     term_date |-> <<>>, rate |-> [tag |-> "", ref |-> "", text |-> <<>>]]

\* How many times parse_security is called on one tracker.
MaxUpdates == 3

\* Trackers handed to the Aggregator: a fresh one of the same process, and
\* trackers rebuilt from a manager list with counts of their own.
own_tracker(floating, fixed, duplicates, matured, delisted, zero_nominal, bm, uncat) ==
    [last_isin |-> None, floating |-> floating, fixed |-> fixed,
     duplicates |-> duplicates, matured |-> matured, delisted |-> delisted,
     zero_nominal |-> zero_nominal, shared |-> FALSE,
     floating_uncat |-> uncat, benchmark_data |-> bm]

TrackerInputs ==
    {init_tracker,
     own_tracker(2, 1, 0, 0, 0, 0,
                 [TRACKER_PROTOTYPE.benchmark_data EXCEPT
                     !["GBP LIBOR"] = [count |-> 1, agg_maturity |-> 30, agg_nominal |-> 100]],
                 [TRACKER_PROTOTYPE.floating_uncat EXCEPT
                     !["index_name"] = (<<"foo">> :> 1)]),
     own_tracker(6, 0, 0, 0, 1, 0,
                 [TRACKER_PROTOTYPE.benchmark_data EXCEPT
                     !["GBP LIBOR"] = [count |-> 2, agg_maturity |-> 50, agg_nominal |-> 300],
                     !["EURIBOR"] = [count |-> 1, agg_maturity |-> 10, agg_nominal |-> 50]],
                 [TRACKER_PROTOTYPE.floating_uncat EXCEPT
                     !["index_name"] = (<<"foo">> :> 2),
                     !["index_code"] = (<<"XYZ">> :> 1)]),
     own_tracker(0, 3, 2, 1, 0, 1,
                 TRACKER_PROTOTYPE.benchmark_data,
                 TRACKER_PROTOTYPE.floating_uncat)}

\* How many trackers one aggregation is handed, and how many aggregations run.
MaxTrackers == 2
MaxAggs == 2

TrackerLists == UNION {[1..n -> TrackerInputs] : n \in 0..MaxTrackers}

NoCall ==
    [op |-> "none", part |-> "", idx |-> 0, key |-> "", ir_data |-> <<>>,
     check_code |-> "", currency |-> "", isin |-> None,
     is_match |-> FALSE, match_type |-> "None", benchmark |-> "None",
     names_before |-> {}, libors_before |-> <<>>, non_libors_before |-> <<>>,
     s |-> NoSecurity, prev_s |-> NoSecurity, err |-> "None", tracker_before |-> <<>>,
     trackers_before |-> <<>>, prototype_before |-> <<>>]

(***************************************************************************)
(* Calls of the Matcher and the Resolver on the module's taxonomy          *)
(***************************************************************************)
taxonomy_vars == <<libors, non_libors, currency_mismatch>>
tracker_vars == <<prototype, tracker, n_updates>>
agg_vars == <<trackers, agg, agg_pc, n_aggs, groups>>

IsBenchmarkLibor(i, ir_data, check_code) ==
    \E m \in {is_benchmark(libors[i], ir_data, check_code)} :
        /\ libors' = [libors EXCEPT ![i] = m.bm_data]
        /\ last' = [NoCall EXCEPT !.op = "is_benchmark", !.part = "libors", !.idx = i,
                                  !.ir_data = ir_data, !.check_code = check_code,
                                  !.is_match = m.is_match, !.match_type = m.match_type,
                                  !.names_before = libors[i].names]
        /\ learned' = IF m.match_type = "root_name"
                      THEN learned \cup {[part |-> "libors", idx |-> i, key |-> "",
                                          name |-> upper(ir_data["index_name"])]}
                      ELSE learned
        /\ UNCHANGED <<non_libors, currency_mismatch, tracker_vars, agg_vars, batch, build>>

IsBenchmarkNonLibor(bm, ir_data, check_code) ==
    \E m \in {is_benchmark(non_libors[bm], ir_data, check_code)} :
        /\ non_libors' = [non_libors EXCEPT ![bm] = m.bm_data]
        /\ last' = [NoCall EXCEPT !.op = "is_benchmark", !.part = "non_libors", !.key = bm,
                                  !.ir_data = ir_data, !.check_code = check_code,
                                  !.is_match = m.is_match, !.match_type = m.match_type,
                                  !.names_before = non_libors[bm].names]
        /\ learned' = IF m.match_type = "root_name"
                      THEN learned \cup {[part |-> "non_libors", idx |-> 0, key |-> bm,
                                          name |-> upper(ir_data["index_name"])]}
                      ELSE learned
        /\ UNCHANGED <<libors, currency_mismatch, tracker_vars, agg_vars, batch, build>>

GetBenchmark(ir_data, currency, isin) ==
    \E r \in {get_benchmark(ir_data, currency, libors, non_libors, isin, currency_mismatch)} :
        /\ libors' = r.libors
        /\ non_libors' = r.non_libors
        /\ currency_mismatch' = r.currency_mismatch
        /\ last' = [NoCall EXCEPT !.op = "get_benchmark", !.ir_data = ir_data,
                                  !.currency = currency, !.isin = isin,
                                  !.is_match = r.benchmark # "None",
                                  !.match_type = r.match_type, !.benchmark = r.benchmark,
                                  !.libors_before = libors,
                                  !.non_libors_before = non_libors]
        /\ UNCHANGED <<tracker_vars, agg_vars, learned, batch, build>>

(***************************************************************************)
(* Calls of the Tracker update on one tracker, with the default arguments  *)
(***************************************************************************)
\* last.prev_s is the record of the call before this one on the same tracker,
\* NoSecurity for the first call on a tracker.
ParseSecurity(s) ==
    /\ n_updates < MaxUpdates
    /\ \E r \in {parse_security(s, tracker, datetime(TODAY_UTC), libors, non_libors,
                                 prototype, currency_mismatch)} :
           /\ tracker' = r.tracker
           /\ prototype' = r.proto
           /\ libors' = r.libors
           /\ non_libors' = r.non_libors
           /\ currency_mismatch' = r.currency_mismatch
           /\ last' = [NoCall EXCEPT !.op = "parse_security", !.s = s, !.err = r.err,
                                     !.prev_s = IF last.op = "parse_security"
                                                THEN last.s ELSE NoSecurity,
                                     !.tracker_before = tracker,
                                     !.prototype_before = prototype,
                                     !.libors_before = libors,
                                     !.non_libors_before = non_libors]
    /\ n_updates' = n_updates + 1
    /\ UNCHANGED <<agg_vars, learned, batch, build>>

\* tracker = init_tracker(): the next file's tracker in the same process.
InitTracker ==
    /\ n_updates > 0
    /\ tracker' = init_tracker
    /\ n_updates' = 0
    /\ last' = [NoCall EXCEPT !.op = "init_tracker", !.tracker_before = tracker,
                              !.prototype_before = prototype]
    /\ UNCHANGED <<prototype, taxonomy_vars, agg_vars, learned, batch, build>>

(***************************************************************************)
(* Calls of the Aggregator                                                 *)
(***************************************************************************)
Aggregate ==
    /\ agg_pc = "ready"
    /\ \E r \in {aggregate_trackers(trackers, prototype)} :
           /\ agg' = r.agg
           /\ prototype' = r.proto
    /\ agg_pc' = "done"
    /\ n_aggs' = n_aggs + 1
    /\ last' = [NoCall EXCEPT !.op = "aggregate_trackers",
                              !.trackers_before =
                                  [i \in 1..Len(trackers) |-> pickled(trackers[i], prototype)],
                              !.prototype_before = prototype]
    /\ UNCHANGED <<trackers, tracker, n_updates, taxonomy_vars, learned, batch, groups, build>>

\* The next batch's trackers arrive.
NextTrackers ==
    /\ agg_pc = "done"
    /\ n_aggs < MaxAggs
    /\ trackers' \in TrackerLists
    /\ agg_pc' = "ready"
    /\ UNCHANGED <<agg, n_aggs, prototype, tracker, n_updates, taxonomy_vars, last, learned,
                   batch, groups, build>>


\* A caller in one process that aggregates a list of trackers in two parts:
\* a1 = aggregate_trackers(trackers[:split]), a2 = aggregate_trackers(
\* trackers[split:]) and then aggregate_trackers([a1, a2]).  parts holds a1 and
\* a2 as returned; whole is the list as it was before the first call and
\* whole_prototype the prototype's dicts then.
NoGroups == [pc |-> "idle", split |-> 0, parts |-> <<>>, whole |-> <<>>, whole_prototype |-> <<>>]

AggregateFirstPart(split) ==
    /\ agg_pc = "ready"
    /\ groups.pc = "idle"
    /\ \E r \in {aggregate_trackers(SubSeq(trackers, 1, split), prototype)} :
           /\ prototype' = r.proto
           /\ groups' = [pc |-> "first", split |-> split, parts |-> <<r.agg>>,
                         whole |-> [i \in 1..Len(trackers) |-> pickled(trackers[i], prototype)],
                         whole_prototype |-> prototype]
    /\ last' = [NoCall EXCEPT !.op = "aggregate_trackers",
                              !.trackers_before =
                                  [i \in 1..split |-> pickled(trackers[i], prototype)],
                              !.prototype_before = prototype]
    /\ UNCHANGED <<trackers, agg, agg_pc, n_aggs, tracker, n_updates, taxonomy_vars,
                   learned, batch, build>>

AggregateSecondPart ==
    /\ groups.pc = "first"
    /\ \E r \in {aggregate_trackers(SubSeq(trackers, groups.split + 1, Len(trackers)),
                                     prototype)} :
           /\ prototype' = r.proto
           /\ groups' = [groups EXCEPT !.pc = "second", !.parts = Append(@, r.agg)]
    /\ last' = [NoCall EXCEPT !.op = "aggregate_trackers",
                              !.trackers_before =
                                  [i \in 1..(Len(trackers) - groups.split) |->
                                      pickled(trackers[groups.split + i], prototype)],
                              !.prototype_before = prototype]
    /\ UNCHANGED <<trackers, agg, agg_pc, n_aggs, tracker, n_updates, taxonomy_vars,
                   learned, batch, build>>

AggregateParts ==
    /\ groups.pc = "second"
    /\ \E r \in {aggregate_trackers(groups.parts, prototype)} :
           /\ agg' = r.agg
           /\ prototype' = r.proto
    /\ groups' = [groups EXCEPT !.pc = "merged"]
    /\ agg_pc' = "done"
    /\ n_aggs' = n_aggs + 1
    /\ last' = [NoCall EXCEPT !.op = "aggregate_trackers",
                              !.trackers_before =
                                  [i \in 1..Len(groups.parts) |->
                                      pickled(groups.parts[i], prototype)],
                              !.prototype_before = prototype]
    /\ UNCHANGED <<trackers, tracker, n_updates, taxonomy_vars, learned, batch, build>>

\* The caller's next list of trackers.
NextParts ==
    /\ groups.pc = "merged"
    /\ n_aggs < MaxAggs
    /\ trackers' \in TrackerLists
    /\ agg_pc' = "ready"
    /\ groups' = NoGroups
    /\ UNCHANGED <<agg, n_aggs, prototype, tracker, n_updates, taxonomy_vars, last, learned,
                   batch, build>>

(***************************************************************************)
(* A batch: main.parse_multi_files over the files of one period            *)
(***************************************************************************)
\* The records of the files: one without a termination date and one with a
\* termination date before today.
record_without_term_date ==
    [isin |-> <<"XS0000000001">>, currency |-> "GBP", nominal |-> 100,
     maturity_date |-> TODAY_UTC + 400, term_date |-> <<>>,
     rate |-> [tag |-> "Fltg", ref |-> "Nm", text |-> <<"usd", " ", "libor", " ", "3m">>]]
record_with_term_date ==
    [isin |-> <<"XS0000000002">>, currency |-> "GBP", nominal |-> 100,
     maturity_date |-> TODAY_UTC + 400, term_date |-> <<TODAY_UTC - 5>>,
     rate |-> [tag |-> "Fxd", ref |-> "", text |-> <<"1.5">>]]
BatchSecurityInputs == {record_without_term_date, record_with_term_date}

\* The files: without RefData elements, with one, and with two.
FileInputs ==
    {<<>>} \cup {<<s>> : s \in BatchSecurityInputs}
    \cup {<<record_without_term_date, record_with_term_date>>}

\* How many files a batch has and how many batches build_csv runs.  agg_runs
\* of a batch counts its calls of aggregate_trackers.
MaxFiles == 2
MaxBatches == 2

BatchInputs == UNION {[1..n -> FileInputs] : n \in 0..MaxFiles}

NoBatch ==
    [pc |-> "idle", n_batches |-> 0, files |-> <<>>, procs |-> <<>>, tasks |-> <<>>,
     tracker_list |-> <<>>, libors_list |-> <<>>, non_libors_list |-> <<>>,
     agg_tracker |-> <<>>, agg_libors |-> <<>>, agg_non_libors |-> <<>>,
     agg_runs |-> 0]

\* A task of pool.starmap before a process of the pool picks it up; runs counts
\* how many times a process has picked it up.
queued_task ==
    [pc |-> "queued", runs |-> 0, proc |-> 0, pos |-> 1, err |-> "None", tracker |-> <<>>,
     libors |-> <<>>, non_libors |-> <<>>, non_libors_copy |-> <<>>, bound |-> <<>>]

\* The module state of a process of the pool, forked from the calling process.
forked ==
    [libors |-> libors, non_libors |-> non_libors, prototype |-> prototype,
     currency_mismatch |-> currency_mismatch]

\* analyse_data.parse_file, line 298: parse_security(elem, tracker, libors,
\* non_libors) passes its libors and non_libors by position, so they are bound
\* to the third and fourth parameters of parse_security, assess_date and libors;
\* the fifth, non_libors, keeps its default, the module's benchmark_data.non_libors.
parse_file_binding ==
    [assess_date |-> "libors", libors |-> "non_libors",
     non_libors |-> "benchmark_data.non_libors"]

\* The loops of lines 110-117 from list element k on.
RECURSIVE merge_libors_from(_, _, _)
merge_libors_from(k, libors_list, agg_libors) ==
    IF k > Len(libors_list) THEN agg_libors
    ELSE merge_libors_from(k + 1, libors_list,
             [i \in 1..Len(agg_libors) |->
                 [agg_libors[i] EXCEPT !.names = @ \cup libors_list[k][i].names]])

RECURSIVE merge_non_libors_from(_, _, _)
merge_non_libors_from(k, non_libors_list, agg_non_libors) ==
    IF k > Len(non_libors_list) THEN agg_non_libors
    ELSE merge_non_libors_from(k + 1, non_libors_list,
             [bm_name \in DOMAIN agg_non_libors |->
                 [agg_non_libors[bm_name] EXCEPT
                     !.names = @ \cup non_libors_list[k][bm_name].names]])

(***************************************************************************)
(* Steps of a batch                                                        *)
(***************************************************************************)
other_vars ==
    <<libors, non_libors, currency_mismatch, tracker, n_updates, trackers, agg, agg_pc,
      n_aggs, last, learned, groups, build>>

\* parse_multi_files up to pool.starmap: the manager's lists are empty, the pool
\* has one process for each file, each forked from the calling process, and one
\* task is queued for each file.  Pool(processes=0) raises ValueError.
StartBatch(files) ==
    /\ batch.pc \in {"idle", "done"}
    /\ batch.n_batches < MaxBatches
    /\ batch' = [NoBatch EXCEPT
                    !.pc = IF Len(files) = 0 THEN "failed" ELSE "running",
                    !.n_batches = batch.n_batches + 1,
                    !.files = files,
                    !.procs = [p \in 1..Len(files) |-> forked],
                    !.tasks = [i \in 1..Len(files) |-> queued_task]]
    /\ UNCHANGED <<prototype, other_vars>>

\* A process that runs no task picks task i up and runs main.parse_file to line
\* 77: the task's taxonomy is a deep copy of the process's (libors and non_libors
\* arrive as None), its tracker a shallow copy of the process's prototype; line
\* 79 then makes the deep copy of non_libors that it hands on.
StartTask(i, p) ==
    /\ batch.pc \in {"running", "failed"}
    /\ i \in DOMAIN batch.tasks /\ p \in DOMAIN batch.procs
    /\ batch.tasks[i].pc = "queued"
    /\ \A j \in DOMAIN batch.tasks :
          batch.tasks[j].proc = p => batch.tasks[j].pc \in {"done", "failed"}
    /\ batch' = [batch EXCEPT !.tasks[i] =
                    [queued_task EXCEPT
                        !.pc = IF Len(batch.files[i]) = 0 THEN "append_tracker"
                               ELSE "parsing",
                        !.runs = batch.tasks[i].runs + 1,
                        !.proc = p,
                        !.tracker = init_tracker,
                        !.libors = batch.procs[p].libors,
                        !.non_libors = batch.procs[p].non_libors,
                        !.non_libors_copy = batch.procs[p].non_libors]]
    /\ UNCHANGED <<prototype, other_vars>>

\* One round of the loop of analyse_data.parse_file on the next RefData element
\* of the task's file, with the arguments as parse_file_binding gives them: the
\* task's libors is assess_date, its copy of non_libors is libors, and the
\* process's benchmark_data.non_libors is non_libors.  An exception ends the task.
ParseRecord(i) ==
    /\ batch.pc \in {"running", "failed"}
    /\ i \in DOMAIN batch.tasks
    /\ batch.tasks[i].pc = "parsing"
    /\ LET t == batch.tasks[i]
           p == t.proc
           file == batch.files[i]
       IN  \E r \in {parse_security(file[t.pos], t.tracker, not_a_datetime,
                                    t.non_libors_copy, batch.procs[p].non_libors,
                                    batch.procs[p].prototype,
                                    batch.procs[p].currency_mismatch)} :
               batch' = [batch EXCEPT
                   !.tasks[i] =
                       [t EXCEPT !.pc = IF r.err # "None" THEN "failed"
                                        ELSE IF t.pos = Len(file) THEN "append_tracker"
                                        ELSE "parsing",
                                 !.pos = t.pos + 1,
                                 !.err = r.err,
                                 !.tracker = r.tracker,
                                 !.non_libors_copy = r.libors,
                                 !.bound = parse_file_binding],
                   !.procs[p] =
                       [batch.procs[p] EXCEPT !.non_libors = r.non_libors,
                                              !.prototype = r.proto,
                                              !.currency_mismatch = r.currency_mismatch]]
    /\ UNCHANGED <<prototype, other_vars>>

\* main.parse_file, lines 80-82: the manager's lists receive pickled copies of
\* the tracker, of libors and of non_libors (not of the copy handed on in line 79).
AppendTracker(i) ==
    /\ batch.pc \in {"running", "failed"}
    /\ i \in DOMAIN batch.tasks
    /\ batch.tasks[i].pc = "append_tracker"
    /\ batch' = [batch EXCEPT
                    !.tracker_list =
                        Append(@, pickled(batch.tasks[i].tracker,
                                          batch.procs[batch.tasks[i].proc].prototype)),
                    !.tasks[i].pc = "append_libors"]
    /\ UNCHANGED <<prototype, other_vars>>

AppendLibors(i) ==
    /\ batch.pc \in {"running", "failed"}
    /\ i \in DOMAIN batch.tasks
    /\ batch.tasks[i].pc = "append_libors"
    /\ batch' = [batch EXCEPT !.libors_list = Append(@, batch.tasks[i].libors),
                              !.tasks[i].pc = "append_non_libors"]
    /\ UNCHANGED <<prototype, other_vars>>

AppendNonLibors(i) ==
    /\ batch.pc \in {"running", "failed"}
    /\ i \in DOMAIN batch.tasks
    /\ batch.tasks[i].pc = "append_non_libors"
    /\ batch' = [batch EXCEPT !.non_libors_list = Append(@, batch.tasks[i].non_libors),
                              !.tasks[i].pc = "done"]
    /\ UNCHANGED <<prototype, other_vars>>

\* pool.starmap re-raises the exception of a task: parse_multi_files and with it
\* build_csv end there.
FailBatch ==
    /\ batch.pc = "running"
    /\ \E i \in DOMAIN batch.tasks : batch.tasks[i].pc = "failed"
    /\ batch' = [batch EXCEPT !.pc = "failed"]
    /\ UNCHANGED <<prototype, other_vars>>

\* FinishBatch with a fault, to test the properties: the tasks that failed are
\* passed over.
FinishBatch_passing_over_failures ==
    /\ batch.pc = "running"
    /\ \A i \in DOMAIN batch.tasks : batch.tasks[i].pc \in {"done", "failed"}
    /\ \E i \in DOMAIN batch.tasks : batch.tasks[i].pc = "done"
    /\ \E r \in {aggregate_trackers(batch.tracker_list, prototype)} :
           /\ prototype' = r.proto
           /\ batch' = [batch EXCEPT
                  !.pc = "done",
                  !.agg_runs = @ + 1,
                  !.agg_tracker = r.agg,
                  !.agg_libors =
                      merge_libors_from(2, batch.libors_list, batch.libors_list[1]),
                  !.agg_non_libors =
                      merge_non_libors_from(2, batch.non_libors_list,
                                            batch.non_libors_list[1])]
    /\ UNCHANGED other_vars

\* pool.starmap returns when every task has; lines 104-118 aggregate the
\* trackers and merge the names of the taxonomies of the lists.
FinishBatch ==
    /\ batch.pc = "running"
    /\ \A i \in DOMAIN batch.tasks : batch.tasks[i].pc = "done"
    /\ \E r \in {aggregate_trackers(batch.tracker_list, prototype)} :
           /\ prototype' = r.proto
           /\ batch' = [batch EXCEPT
                  !.pc = "done",
                  !.agg_runs = @ + 1,
                  !.agg_tracker = r.agg,
                  !.agg_libors =
                      merge_libors_from(2, batch.libors_list, batch.libors_list[1]),
                  !.agg_non_libors =
                      merge_non_libors_from(2, batch.non_libors_list,
                                            batch.non_libors_list[1])]
    /\ UNCHANGED other_vars

(***************************************************************************)
(* Steps of build_csv                                                      *)
(***************************************************************************)
\* rows are the rows written to the CSV file, the header row first; period
\* counts the date ranges of iter_dates that have been begun.
NoBuild ==
    [pc |-> "idle", period |-> 0, files |-> <<>>, dates |-> <<>>, rows |-> <<>>,
     err |-> "None"]

\* What fetch_data.get_xml_files returns for a date range: the downloaded files
\* and the sorted publication dates (the keys of a dict: no date twice, and no
\* date without a file).  Dates are days.
XmlFilesInputs ==
    {<<<<>>, <<>>>>,
     <<<<<<>>>>, <<3>>>>,
     <<<<<<>>, <<>>>>, <<3>>>>,
     <<<<<<>>, <<record_without_term_date>>>>, <<3>>>>,
     <<<<<<>>, <<>>>>, <<3, 4>>>>}

build_frame ==
    <<libors, non_libors, currency_mismatch, tracker, n_updates, trackers, agg, agg_pc,
      n_aggs, last, learned, groups>>

\* Lines 156-167: the header row of a new file.
BuildCsv ==
    /\ build.pc = "idle"
    /\ build' = [NoBuild EXCEPT !.pc = "period", !.rows = <<"CSV_HEADINGS">>]
    /\ UNCHANGED <<prototype, batch, build_frame>>

\* GetXmlFiles with a fault, to test the properties: the publication dates are
\* not compared.
GetXmlFiles_without_date_check(files, dates) ==
    /\ build.pc = "period"
    /\ build.period < MaxBatches
    /\ build' = IF dates = <<>>
                THEN [build EXCEPT !.pc = "failed", !.err = "IndexError",
                                   !.period = @ + 1, !.files = files, !.dates = dates]
                ELSE [build EXCEPT !.pc = "parse", !.period = @ + 1,
                                   !.files = files, !.dates = dates]
    /\ UNCHANGED <<prototype, batch, build_frame>>

\* Lines 168-186: the next date range of iter_dates, its files and their
\* publication dates; ValueError for more than one date, IndexError at dates[0]
\* for none; otherwise parse_multi_files(files) is next.
GetXmlFiles(files, dates) ==
    /\ build.pc = "period"
    /\ build.period < MaxBatches
    /\ build' = IF Cardinality(Range(dates)) > 1
                THEN [build EXCEPT !.pc = "failed", !.err = "ValueError",
                                   !.period = @ + 1, !.files = files, !.dates = dates]
                ELSE IF dates = <<>>
                THEN [build EXCEPT !.pc = "failed", !.err = "IndexError",
                                   !.period = @ + 1, !.files = files, !.dates = dates]
                ELSE [build EXCEPT !.pc = "parse", !.period = @ + 1,
                                   !.files = files, !.dates = dates]
    /\ UNCHANGED <<prototype, batch, build_frame>>

\* Line 187: parse_multi_files(files) for the period that has been begun.
ParseMultiFiles ==
    /\ build.pc = "parse"
    /\ batch.n_batches < build.period
    /\ StartBatch(build.files)

\* An exception of parse_multi_files is not caught: build_csv ends with it.
ParseMultiFilesRaised ==
    /\ build.pc = "parse"
    /\ batch.n_batches = build.period
    /\ batch.pc = "failed"
    /\ build' = [build EXCEPT !.pc = "failed", !.err = "parse_multi_files"]
    /\ UNCHANGED <<prototype, batch, build_frame>>

\* Lines 188-211, once parse_multi_files has returned: the row of the period.
\* Line 198 reads bm_data[name]['agg_mxn'] for every benchmark name.
WriteRow ==
    /\ build.pc = "parse"
    /\ batch.n_batches = build.period
    /\ batch.pc = "done"
    /\ LET bm_data == benchmark_data_of(batch.agg_tracker, prototype)
       IN  build' =
               IF \E n \in 1..Len(benchmark_names) : benchmark_names[n] \notin DOMAIN bm_data
               THEN [build EXCEPT !.pc = "failed", !.err = "KeyError"]
               ELSE IF \E n \in 1..Len(benchmark_names) :
                          "agg_mxn" \notin DOMAIN bm_data[benchmark_names[n]]
               THEN [build EXCEPT !.pc = "failed", !.err = "KeyError"]
               ELSE [build EXCEPT !.pc = "period", !.rows = Append(@, build.dates[1])]
    /\ UNCHANGED <<prototype, batch, build_frame>>

vars == <<libors, non_libors, currency_mismatch, prototype, tracker, n_updates,
          trackers, agg, agg_pc, n_aggs, last, learned, batch, groups, build>>

initial_prototype ==
    [floating_uncat |-> TRACKER_PROTOTYPE.floating_uncat,
     benchmark_data |-> TRACKER_PROTOTYPE.benchmark_data]

Init ==
    /\ libors = libors_data
    /\ non_libors = non_libors_data
    /\ currency_mismatch = <<>>
    /\ prototype = initial_prototype
    /\ tracker = init_tracker
    /\ n_updates = 0
    /\ trackers = <<>>
    /\ agg = init_tracker
    /\ agg_pc = "idle"
    /\ n_aggs = 0
    /\ last = NoCall
    /\ learned = {}
    /\ batch = NoBatch
    /\ groups = NoGroups
    /\ build = NoBuild

\* The Resolver called on the module's taxonomy.
Next ==
    \E ir_data \in IrInputs, currency \in CurrencyInputs, isin \in SecIsinInputs :
        GetBenchmark(ir_data, currency, isin)

Spec == Init /\ [][Next]_vars

\* The Matcher called on one descriptor of the module's taxonomy.
NextMatcher ==
    \/ \E i \in MatcherLibors, ir_data \in IrInputs, check_code \in {"True", "False"} :
           IsBenchmarkLibor(i, ir_data, check_code)
    \/ \E bm \in MatcherNonLibors, ir_data \in IrInputs, check_code \in {"True", "False"} :
           IsBenchmarkNonLibor(bm, ir_data, check_code)

SpecMatcher == Init /\ [][NextMatcher]_vars

\* The Tracker update called on trackers of one process.
NextTracker ==
    \/ \E s \in SecurityInputs : ParseSecurity(s)
    \/ InitTracker

SpecTracker == Init /\ [][NextTracker]_vars

\* The Aggregator called on lists of trackers.
InitAgg ==
    /\ libors = libors_data
    /\ non_libors = non_libors_data
    /\ currency_mismatch = <<>>
    /\ prototype = initial_prototype
    /\ tracker = init_tracker
    /\ n_updates = 0
    /\ trackers \in TrackerLists
    /\ agg = init_tracker
    /\ agg_pc = "ready"
    /\ n_aggs = 0
    /\ last = NoCall
    /\ learned = {}
    /\ batch = NoBatch
    /\ groups = NoGroups
    /\ build = NoBuild

NextAgg == Aggregate \/ NextTrackers

SpecAgg == InitAgg /\ [][NextAgg]_vars

\* aggregate_trackers called on the two parts of a list and on the results.
NextGroups ==
    \/ \E split \in 0..Len(trackers) : AggregateFirstPart(split)
    \/ AggregateSecondPart
    \/ AggregateParts
    \/ NextParts

SpecGroups == InitAgg /\ [][NextGroups]_vars

\* Batches of build_csv, one after the other.
NextBatch ==
    \/ \E files \in BatchInputs : StartBatch(files)
    \/ \E i \in 1..MaxFiles, p \in 1..MaxFiles : StartTask(i, p)
    \/ \E i \in 1..MaxFiles : ParseRecord(i)
    \/ \E i \in 1..MaxFiles : AppendTracker(i)
    \/ \E i \in 1..MaxFiles : AppendLibors(i)
    \/ \E i \in 1..MaxFiles : AppendNonLibors(i)
    \/ FailBatch
    \/ FinishBatch

SpecBatch == Init /\ [][NextBatch]_vars

\* A run of the calling process: calls of the Matcher and the Resolver on the
\* module's taxonomy, and batches, whose tasks call the Tracker update and whose
\* end is the merge of the taxonomies.  The process is inside pool.starmap while
\* a batch runs, so it makes its own calls before a batch or after it.
RunIrInputs ==
    {name_ir(<<"usd", " ", "libor", " ", "3m">>), name_ir(<<"Euribor", "-", "6m">>)}
RunBatchInputs == {<<<<>>>>, <<<<>>, <<>>>>, <<<<>>, <<record_without_term_date>>>>}

NextRun ==
    \/ \E ir_data \in RunIrInputs :
           batch.pc # "running" /\ IsBenchmarkLibor(2, ir_data, "False")
    \/ \E ir_data \in RunIrInputs :
           batch.pc # "running" /\ IsBenchmarkNonLibor("EURIBOR", ir_data, "True")
    \/ \E ir_data \in RunIrInputs :
           batch.pc # "running" /\ GetBenchmark(ir_data, "GBP", None)
    \/ \E files \in RunBatchInputs : StartBatch(files)
    \/ \E i \in 1..MaxFiles, p \in 1..MaxFiles : StartTask(i, p)
    \/ \E i \in 1..MaxFiles : ParseRecord(i)
    \/ \E i \in 1..MaxFiles : AppendTracker(i)
    \/ \E i \in 1..MaxFiles : AppendLibors(i)
    \/ \E i \in 1..MaxFiles : AppendNonLibors(i)
    \/ FailBatch
    \/ FinishBatch

SpecRun == Init /\ [][NextRun]_vars

\* One process that updates trackers, makes new ones and aggregates lists of
\* trackers.
NextProcess ==
    \/ \E s \in BatchSecurityInputs : ParseSecurity(s)
    \/ InitTracker
    \/ Aggregate
    \/ NextTrackers

SpecProcess == InitAgg /\ [][NextProcess]_vars

\* build_csv with the batches it runs.
NextCsv ==
    \/ BuildCsv
    \/ \E x \in XmlFilesInputs : GetXmlFiles(x[1], x[2])
    \/ ParseMultiFiles
    \/ \E i \in 1..MaxFiles, p \in 1..MaxFiles : StartTask(i, p)
    \/ \E i \in 1..MaxFiles : ParseRecord(i)
    \/ \E i \in 1..MaxFiles : AppendTracker(i)
    \/ \E i \in 1..MaxFiles : AppendLibors(i)
    \/ \E i \in 1..MaxFiles : AppendNonLibors(i)
    \/ FailBatch
    \/ FinishBatch
    \/ ParseMultiFilesRaised
    \/ WriteRow

SpecCsv == Init /\ [][NextCsv]_vars

\* The Matcher and the Tracker update called on the module's taxonomy: rate
\* descriptors that match by code, by ISIN, by name, by root name and not at all.
TaxonomyIrInputs ==
    {name_ir(<<"usd", " ", "libor", " ", "3m">>), name_ir(<<"Euribor", "-", "6m">>),
     name_ir(<<"3MTH", " ", "GBP">>), name_ir(<<"foo">>),
     code_ir(<<"LIBO">>), isin_ir(<<"GB00BD080045">>)}

NextTaxonomy ==
    \/ \E i \in {1, 2}, ir_data \in TaxonomyIrInputs, check_code \in {"True", "False"} :
           IsBenchmarkLibor(i, ir_data, check_code)
    \/ \E ir_data \in TaxonomyIrInputs, check_code \in {"True", "False"} :
           IsBenchmarkNonLibor("EURIBOR", ir_data, check_code)
    \/ \E s \in BatchSecurityInputs : ParseSecurity(s)

SpecTaxonomy == Init /\ [][NextTaxonomy]_vars

(***************************************************************************)
(* Properties of the Tracker update                                        *)
(***************************************************************************)
\* The tracker and taxonomy a parse_security call was made on, and its record.
updated == last.op = "parse_security"

\* The checks of lines 259-273 as the record's own fields decide them.
is_delisted(s) == s.term_date # <<>> /\ s.term_date[1] < TODAY_UTC
is_duplicate(s, t) == s.isin = t.last_isin
is_matured(s) == s.maturity_date < TODAY_UTC
passes_checks(s, t) ==
    ~is_delisted(s) /\ ~is_duplicate(s, t) /\ ~is_matured(s) /\ s.nominal # 0

\* The benchmark the Resolver gives the record on the taxonomy of before the call.
resolved(s) ==
    get_benchmark(get_interest_rate(s).ir_data, get_currency(s), last.libors_before,
                  last.non_libors_before, None, <<>>).benchmark

bm_before == benchmark_data_of(last.tracker_before, last.prototype_before)
bm_after == benchmark_data_of(tracker, prototype)

\* C1: a floating record that passes the delisted, duplicate, matured and
\* zero-nominal checks and resolves to benchmark B makes parse_security return
\* normally with B's count + 1, B's summed maturity + the record's maturity,
\* B's summed nominal + the record's nominal, floating + 1 and every other
\* benchmark's aggregate unchanged.
C1_ResolvedFloatingUpdatesB ==
    (/\ updated
     /\ last.s.rate.tag = "Fltg"
     /\ passes_checks(last.s, last.tracker_before)
     /\ resolved(last.s) # "None")
    => /\ last.err = "None"
       /\ tracker.floating = last.tracker_before.floating + 1
       /\ \A bm \in DOMAIN bm_before :
             bm_after[bm] =
                 IF bm = resolved(last.s)
                 THEN [count |-> bm_before[bm].count + 1,
                       agg_maturity |-> bm_before[bm].agg_maturity
                                        + (last.s.maturity_date - TODAY_UTC),
                       agg_nominal |-> bm_before[bm].agg_nominal + last.s.nominal]
                 ELSE bm_before[bm]

\* The counter the ordered checks assign to a well-formed record.
counter_of(s, t) ==
    IF is_delisted(s) THEN "delisted"
    ELSE IF is_duplicate(s, t) THEN "duplicates"
    ELSE IF is_matured(s) THEN "matured"
    ELSE IF s.nominal = 0 THEN "zero_nominal"
    ELSE IF s.rate.tag = "Fxd" THEN "fixed"
    ELSE "floating"

\* C2: parse_security on a well-formed record returns normally and adds 1 to
\* exactly one of delisted, duplicates, matured, zero_nominal, fixed and
\* floating, the first that applies in that order, so that the six counters of
\* a tracker sum to the number of updates made on it.
C2_ExactlyOneCounter ==
    (updated /\ last.s.rate.tag \in {"Fxd", "Fltg"})
    => /\ last.err = "None"
       /\ \A k \in ScalarKeys :
             scalar(tracker, k) =
                 scalar(last.tracker_before, k)
                 + (IF k = counter_of(last.s, last.tracker_before) THEN 1 ELSE 0)


(***************************************************************************)
(* Properties of the Matcher                                               *)
(***************************************************************************)
matched == last.op = "is_benchmark"

\* The descriptor of the last Matcher call; its code, ISINs and root names are
\* those of before the call, its names of before the call are last.names_before.
descriptor == IF last.part = "libors" THEN libors[last.idx] ELSE non_libors[last.key]

rate_name == Get(last.ir_data, "index_name")
rate_tokens == Range(re_split(upper(rate_name)))

code_rule ==
    last.check_code = "True" /\ Get(last.ir_data, "index_code") = descriptor.code
isin_rule == Get(last.ir_data, "index_isin") \in descriptor.isins
name_absent == rate_name = None \/ rate_name = <<>>
name_rule ==
    \/ upper(rate_name) = descriptor.code
    \/ upper(rate_name) \in (last.names_before \cup descriptor.isins)
root_name_rule ==
    \E r \in 1..Len(descriptor.root_names) :
        \A w \in 1..Len(descriptor.root_names[r]) :
            upper(descriptor.root_names[r][w]) \in rate_tokens

\* C3: is_benchmark returns the first rule that applies in the order code (only
\* when check_code is true), isin, no match for an absent name, name (the
\* upper-cased name is the descriptor's code or one of its names or ISINs),
\* root_name (every word of one root name is a token of the name), no match.
C3_FirstRuleInOrder ==
    matched =>
        /\ last.match_type =
              (IF code_rule THEN "code"
               ELSE IF isin_rule THEN "isin"
               ELSE IF name_absent THEN "None"
               ELSE IF name_rule THEN "name"
               ELSE IF root_name_rule THEN "root_name"
               ELSE "None")
        /\ last.is_match = (last.match_type # "None")

\* C3's case: check_code false and only a code, equal to the descriptor's, gives
\* no match.
C3_EqualCodeWithoutCheckCode ==
    /\ matched
    /\ last.check_code = "False"
    /\ last.part = "libors" /\ last.idx = 2
    /\ last.ir_data = code_ir(libors[2].code)
    /\ ~last.is_match /\ last.match_type = "None"

resolved_call == last.op = "get_benchmark"

\* The Matcher's verdict on the descriptors as the scans of is_libor and
\* get_benchmark find them before the call.
accepts_libor(i) ==
    is_benchmark(last.libors_before[i], last.ir_data,
                 IF last.libors_before[i].currency = NoCurrency THEN "True"
                 ELSE "False").is_match
accepts_non_libor(k) ==
    is_benchmark(last.non_libors_before[non_libors_keys[k]], last.ir_data,
                 last.currency).is_match
accepted_libors == {i \in 1..Len(last.libors_before) : accepts_libor(i)}
accepted_non_libors == {k \in 1..Len(non_libors_keys) : accepts_non_libor(k)}
first(S) == CHOOSE i \in S : \A j \in S : i <= j
label(bm_data) ==
    (IF bm_data.currency = NoCurrency THEN last.currency ELSE bm_data.currency)
    \o " LIBOR"

\* C4: get_benchmark never resolves by code to a descriptor that has a
\* currency: not to a benchmark of non_libors, and not to a LIBOR descriptor
\* other than the catch-all one.
C4_CodeOnlyForNullCurrency ==
    (resolved_call /\ last.match_type = "code")
    => /\ accepted_libors # {}
       /\ last.libors_before[first(accepted_libors)].currency = NoCurrency

\* C5: get_benchmark returns the benchmark of the first LIBOR descriptor the
\* Matcher accepts, in the order of libors; if none is accepted, the key of
\* the first descriptor of non_libors the Matcher accepts, in the order of
\* non_libors; and (None, None) exactly when no descriptor is accepted.
C5_FirstAcceptedInScanOrder ==
    resolved_call =>
        /\ last.benchmark =
              (IF accepted_libors # {}
               THEN label(last.libors_before[first(accepted_libors)])
               ELSE IF accepted_non_libors # {}
               THEN non_libors_keys[first(accepted_non_libors)]
               ELSE "None")
        /\ (last.benchmark = "None")
              <=> (accepted_libors = {} /\ accepted_non_libors = {})
        /\ (last.benchmark = "None") <=> (last.match_type = "None")

\* C5's case: a name that both a currency-carrying LIBOR descriptor and the
\* catch-all one accept resolves to the former.
C5_CurrencyLiborBeforeCatchAll ==
    /\ resolved_call
    /\ last.ir_data = name_ir(<<"usd", " ", "libor", " ", "3m">>)
    /\ {2, 6} \subseteq accepted_libors
    /\ last.benchmark = "USD LIBOR"


(***************************************************************************)
(* Properties of the Aggregator                                            *)
(***************************************************************************)
aggregated == last.op = "aggregate_trackers"

\* The trackers the last aggregate_trackers call was handed, as they were then.
inputs == last.trackers_before
agg_benchmark_data == benchmark_data_of(agg, prototype)
agg_floating_uncat == floating_uncat_of(agg, prototype)

\* C7: the result of aggregate_trackers on N >= 0 trackers has every scalar
\* counter equal to the sum of that counter over the trackers, and for every
\* benchmark the count, summed nominal and summed maturity equal to the sums
\* over the trackers: all zero when N = 0.
C7_AggregateIsSum ==
    aggregated =>
        /\ \A k \in ScalarKeys :
              scalar(agg, k) = sum([i \in 1..Len(inputs) |-> scalar(inputs[i], k)])
        /\ \A bm \in DOMAIN agg_benchmark_data :
              /\ agg_benchmark_data[bm].count =
                     sum([i \in 1..Len(inputs) |-> inputs[i].benchmark_data[bm].count])
              /\ agg_benchmark_data[bm].agg_nominal =
                     sum([i \in 1..Len(inputs) |-> inputs[i].benchmark_data[bm].agg_nominal])
              /\ agg_benchmark_data[bm].agg_maturity =
                     sum([i \in 1..Len(inputs) |-> inputs[i].benchmark_data[bm].agg_maturity])
        /\ Len(inputs) = 0 =>
              /\ \A k \in ScalarKeys : scalar(agg, k) = 0
              /\ \A bm \in DOMAIN agg_benchmark_data :
                    agg_benchmark_data[bm] =
                        [count |-> 0, agg_maturity |-> 0, agg_nominal |-> 0]

\* C7's case: two trackers with counts for the same benchmark.
C7_TwoTrackersSummed ==
    /\ aggregated
    /\ Len(inputs) = 2
    /\ inputs[1].benchmark_data["GBP LIBOR"].count = 1
    /\ inputs[2].benchmark_data["GBP LIBOR"].count = 2
    /\ agg_benchmark_data["GBP LIBOR"] =
           [count |-> 3, agg_maturity |-> 80, agg_nominal |-> 400]
    /\ agg.floating = 8

\* The trackers that hold identifier x in bucket k.
holders(k, x) == {i \in 1..Len(inputs) : x \in DOMAIN inputs[i].floating_uncat[k]}

\* C8: in the buckets of the result's floating_uncat, an identifier that two or
\* more of the trackers hold has the count of one of them and not the sum of
\* their counts; an identifier that one tracker holds has that tracker's count.
C8_UncatKeepsOneCount ==
    aggregated =>
        \A k \in IdentifierKinds :
            \A i \in 1..Len(inputs) :
                \A x \in DOMAIN inputs[i].floating_uncat[k] :
                    /\ x \in DOMAIN agg_floating_uncat[k]
                    /\ \E h \in holders(k, x) :
                          agg_floating_uncat[k][x] = inputs[h].floating_uncat[k][x]
                    /\ Cardinality(holders(k, x)) >= 2 =>
                          agg_floating_uncat[k][x] #
                              sum([j \in 1..Len(inputs) |->
                                      IF j \in holders(k, x)
                                      THEN inputs[j].floating_uncat[k][x] ELSE 0])

\* C8's case: two trackers hold the same name, with counts 1 and 2.
C8_SameNameInTwoTrackers ==
    /\ aggregated
    /\ Len(inputs) = 2
    /\ holders("index_name", <<"foo">>) = {1, 2}
    /\ inputs[1].floating_uncat["index_name"][<<"foo">>] = 1
    /\ inputs[2].floating_uncat["index_name"][<<"foo">>] = 2
    /\ agg_floating_uncat["index_name"][<<"foo">>] = 2


(***************************************************************************)
(* Properties of a batch                                                   *)
(***************************************************************************)
\* The tasks that have handed a record to parse_security.
handed == {i \in DOMAIN batch.tasks : batch.tasks[i].bound # <<>>}

\* C10: in a batch every task classifies its records on its own copy of the
\* taxonomy and its own tracker: parse_security returns normally, its libors is
\* the task's libors, its non_libors the task's copy of non_libors and its
\* assess_date neither of them, and the module state of the task's process
\* stays as it was forked.
C10_TaskClassifiesOnOwnCopy ==
    \A i \in handed :
        /\ batch.tasks[i].err = "None"
        /\ batch.tasks[i].bound.libors = "libors"
        /\ batch.tasks[i].bound.non_libors = "non_libors"
        /\ batch.tasks[i].bound.assess_date \notin {"libors", "non_libors"}
        /\ batch.procs[batch.tasks[i].proc].non_libors = non_libors
        /\ batch.procs[batch.tasks[i].proc].libors = libors


failed_tasks == {i \in DOMAIN batch.tasks : batch.tasks[i].pc = "failed"}
finished_tasks == {i \in DOMAIN batch.tasks : batch.tasks[i].pc = "done"}

\* C11: in a batch aggregate_trackers is called at most once, and only when
\* every task has finished; once a task has failed the batch does not complete
\* and aggregate_trackers is not called, the only step left to the calling
\* process is to fail, and no task is picked up a second time.
C11_AggregateOnceAfterAllTasks ==
    /\ batch.agg_runs <= 1
    /\ batch.agg_runs = 1 =>
          /\ batch.pc = "done"
          /\ finished_tasks = DOMAIN batch.tasks
    /\ failed_tasks # {} =>
          /\ batch.pc \in {"running", "failed"}
          /\ batch.agg_runs = 0
          /\ ~ENABLED FinishBatch
          /\ batch.pc = "running" => ENABLED FailBatch
    /\ \A i \in DOMAIN batch.tasks : batch.tasks[i].runs <= 1

\* C11's case: one task of a batch has failed, the other has finished, and the
\* batch has failed without a call of aggregate_trackers.
C11_BatchFailedAfterTaskFailed ==
    /\ batch.pc = "failed"
    /\ Len(batch.tasks) = 2
    /\ failed_tasks # {} /\ finished_tasks # {}
    /\ batch.agg_runs = 0
    /\ batch.agg_tracker = <<>>

(***************************************************************************)
(* Properties of the Tracker update: the order of the checks               *)
(***************************************************************************)
\* The record parse_security was called on immediately before last.s, on the
\* same tracker.
follows_a_record == updated /\ last.prev_s # NoSecurity
counted(k) == scalar(tracker, k) = scalar(last.tracker_before, k) + 1

\* C12: on one tracker, a record that is not delisted is counted under
\* duplicates if and only if its ISIN is the ISIN of the record of the call
\* immediately before it, whatever that record was counted as.
C12_DuplicateIffSameIsinAsPrevious ==
    (updated /\ ~is_delisted(last.s))
    => (counted("duplicates")
        <=> (follows_a_record /\ last.s.isin = last.prev_s.isin))

\* C13: for a record whose rate is neither fixed nor floating, whatever its
\* other fields, parse_security raises the ValueError of get_interest_rate and
\* adds to no counter of the tracker.
C13_MalformedRateRaises ==
    (updated /\ last.s.rate.tag \notin {"Fxd", "Fltg"})
    => /\ last.err = "ValueError"
       /\ \A k \in ScalarKeys : scalar(tracker, k) = scalar(last.tracker_before, k)

\* What get_benchmark writes to an empty log when it is handed the record's
\* ISIN: one entry when the resolved benchmark's currency is not the record's.
mismatch_of(s) ==
    get_benchmark(get_interest_rate(s).ir_data, get_currency(s), last.libors_before,
                  last.non_libors_before, get_isin(s), <<>>).currency_mismatch

\* C14: when parse_security resolves a floating record that carries an ISIN to
\* a benchmark whose currency is not the record's currency, the call returns
\* normally and currency_mismatch afterwards maps the ISIN to (benchmark
\* currency, record currency).
C14_MismatchLoggedByTrackerUpdate ==
    (/\ updated
     /\ last.s.rate.tag = "Fltg"
     /\ passes_checks(last.s, last.tracker_before)
     /\ get_isin(last.s) # None
     /\ mismatch_of(last.s) # <<>>)
    => /\ last.err = "None"
       /\ get_isin(last.s) \in DOMAIN currency_mismatch
       /\ currency_mismatch[get_isin(last.s)] = mismatch_of(last.s)[get_isin(last.s)]

(***************************************************************************)
(* Properties of the Resolver: the currency of a LIBOR label               *)
(***************************************************************************)
accepted_currency_libors ==
    {i \in accepted_libors : last.libors_before[i].currency # NoCurrency}
accepted_catch_all_libors ==
    {i \in accepted_libors : last.libors_before[i].currency = NoCurrency}

\* C15: when the Matcher accepts no LIBOR descriptor that has a currency and
\* accepts the catch-all one, get_benchmark returns the security's currency
\* followed by " LIBOR"; when it accepts a LIBOR descriptor that has a
\* currency, get_benchmark returns that descriptor's currency followed by
\* " LIBOR", whatever the security's currency is.
C15_LiborLabelCurrency ==
    resolved_call =>
        /\ (accepted_currency_libors = {} /\ accepted_catch_all_libors # {})
              => last.benchmark = last.currency \o " LIBOR"
        /\ accepted_currency_libors # {}
              => last.benchmark =
                     last.libors_before[first(accepted_currency_libors)].currency
                     \o " LIBOR"

\* C15's case: a code that only the catch-all descriptor accepts, for a security
\* in a currency no LIBOR descriptor has.
C15_CatchAllTakesSecurityCurrency ==
    /\ resolved_call
    /\ last.ir_data = code_ir(<<"LIBO">>)
    /\ last.currency = "SEK"
    /\ accepted_currency_libors = {}
    /\ accepted_catch_all_libors # {}
    /\ \A i \in 1..Len(last.libors_before) : last.libors_before[i].currency # "SEK"
    /\ last.benchmark = "SEK LIBOR"

(***************************************************************************)
(* Properties of the Tracker update: fixed, unresolved and zero-nominal    *)
(* records                                                                 *)
(***************************************************************************)
uncat_before == floating_uncat_of(last.tracker_before, last.prototype_before)
uncat_after == floating_uncat_of(tracker, prototype)
taxonomy_unchanged ==
    libors = last.libors_before /\ non_libors = last.non_libors_before
occurrences(uncat, k, x) == IF x \in DOMAIN uncat[k] THEN uncat[k][x] ELSE 0

\* C16: a fixed-rate record that passes the delisted, duplicate, matured and
\* zero-nominal checks makes parse_security return normally with fixed + 1 and
\* with floating, every benchmark's aggregate, every uncategorised bucket and
\* the taxonomy unchanged.
C16_FixedRecordCountsFixedOnly ==
    (/\ updated
     /\ last.s.rate.tag = "Fxd"
     /\ passes_checks(last.s, last.tracker_before))
    => /\ last.err = "None"
       /\ tracker.fixed = last.tracker_before.fixed + 1
       /\ tracker.floating = last.tracker_before.floating
       /\ bm_after = bm_before
       /\ uncat_after = uncat_before
       /\ taxonomy_unchanged

\* C17: a floating record that passes the four checks and that get_benchmark
\* does not resolve makes parse_security return normally with floating + 1,
\* with one more occurrence of each identifier of its rate under that
\* identifier's kind in floating_uncat, and with every benchmark's aggregate
\* unchanged.
C17_UnresolvedFloatingIsTallied ==
    (/\ updated
     /\ last.s.rate.tag = "Fltg"
     /\ passes_checks(last.s, last.tracker_before)
     /\ resolved(last.s) = "None")
    => /\ last.err = "None"
       /\ tracker.floating = last.tracker_before.floating + 1
       /\ \A k \in DOMAIN get_interest_rate(last.s).ir_data :
             LET x == get_interest_rate(last.s).ir_data[k]
             IN  occurrences(uncat_after, k, x) = occurrences(uncat_before, k, x) + 1
       /\ bm_after = bm_before

\* C18: a record with nominal amount 0 that is not delisted, does not repeat
\* last_isin and has not matured makes parse_security return normally with
\* zero_nominal + 1, whatever its rate is, and with fixed, floating, every
\* benchmark's aggregate, every uncategorised bucket and the taxonomy unchanged.
C18_ZeroNominalCountedBeforeRate ==
    (/\ updated
     /\ last.s.nominal = 0
     /\ ~is_delisted(last.s)
     /\ ~is_duplicate(last.s, last.tracker_before)
     /\ ~is_matured(last.s))
    => /\ last.err = "None"
       /\ tracker.zero_nominal = last.tracker_before.zero_nominal + 1
       /\ tracker.fixed = last.tracker_before.fixed
       /\ tracker.floating = last.tracker_before.floating
       /\ bm_after = bm_before
       /\ uncat_after = uncat_before
       /\ taxonomy_unchanged

(***************************************************************************)
(* Properties of the Aggregator: order and grouping                        *)
(***************************************************************************)
\* The scalar counters of two aggregates and their per-benchmark count, summed
\* nominal and summed maturity are the same.
same_sums(a, a_bm, b, b_bm) ==
    /\ \A k \in ScalarKeys : scalar(a, k) = scalar(b, k)
    /\ \A bm \in DOMAIN a_bm :
          /\ a_bm[bm].count = b_bm[bm].count
          /\ a_bm[bm].agg_nominal = b_bm[bm].agg_nominal
          /\ a_bm[bm].agg_maturity = b_bm[bm].agg_maturity

\* aggregate_trackers called once on the whole list, as it was before the parts
\* were aggregated, and on that list in another order.
at_once == aggregate_trackers(groups.whole, groups.whole_prototype)
in_order(p) ==
    aggregate_trackers([i \in 1..Len(groups.whole) |-> groups.whole[p[i]]],
                       groups.whole_prototype)
in_groups == groups.pc = "merged"

\* C19: the scalar counters and the per-benchmark count, summed nominal and
\* summed maturity that aggregate_trackers gives for a list of trackers are the
\* same for every order of the list, and the aggregate of the aggregates of two
\* parts of the list has the same values as the aggregate of the whole list.
C19_OrderAndGroupingDoNotMatter ==
    in_groups =>
        /\ \A p \in Permutations(1..Len(groups.whole)) :
              same_sums(in_order(p).agg, in_order(p).proto.benchmark_data,
                        at_once.agg, at_once.proto.benchmark_data)
        /\ same_sums(agg, agg_benchmark_data, at_once.agg, at_once.proto.benchmark_data)

(***************************************************************************)
(* Properties of a run: the names of the descriptors                       *)
(***************************************************************************)
\* Every descriptor of taxonomy a is in b with at least the names it has in a.
names_kept(a, b) ==
    \A k \in DOMAIN a : k \in DOMAIN b /\ a[k].names \subseteq b[k].names

\* The copies of the taxonomy that task i of the running batch holds.
task_started(b, i) == i \in DOMAIN b.tasks /\ b.tasks[i].libors # <<>>

\* One step keeps every name: in the module's taxonomy, in the taxonomy of each
\* process of the pool, in the copies each task holds, and in the merged
\* taxonomy that a batch returns, which has every name of every element of the
\* manager's lists.
NamesKept ==
    /\ names_kept(libors, libors')
    /\ names_kept(non_libors, non_libors')
    /\ batch'.n_batches = batch.n_batches =>
          /\ \A p \in DOMAIN batch.procs :
                /\ names_kept(batch.procs[p].libors, batch'.procs[p].libors)
                /\ names_kept(batch.procs[p].non_libors, batch'.procs[p].non_libors)
          /\ \A i \in DOMAIN batch.tasks :
                (task_started(batch, i) /\ task_started(batch', i)) =>
                    /\ names_kept(batch.tasks[i].libors, batch'.tasks[i].libors)
                    /\ names_kept(batch.tasks[i].non_libors, batch'.tasks[i].non_libors)
                    /\ names_kept(batch.tasks[i].non_libors_copy,
                                  batch'.tasks[i].non_libors_copy)
          /\ \A k \in DOMAIN batch.libors_list :
                names_kept(batch.libors_list[k], batch'.libors_list[k])
          /\ \A k \in DOMAIN batch.non_libors_list :
                names_kept(batch.non_libors_list[k], batch'.non_libors_list[k])
    /\ (batch.pc = "running" /\ batch'.pc = "done") =>
          /\ \A k \in DOMAIN batch.libors_list :
                names_kept(batch.libors_list[k], batch'.agg_libors)
          /\ \A k \in DOMAIN batch.non_libors_list :
                names_kept(batch.non_libors_list[k], batch'.agg_non_libors)

\* C20: over any sequence of calls of the Matcher, the Resolver and the Tracker
\* update and the merge of the taxonomies at the end of a batch, the names of
\* every descriptor only grow: a name that is there before a step is there
\* after it.
C20_NamesOnlyGrow == [][NamesKept]_vars

\* C20's case: a name that calls of the Resolver and the Matcher have added to
\* USD LIBOR and to EURIBOR is in the taxonomy that a batch of two files returns.
C20_LearnedNamesSurviveMerge ==
    /\ batch.pc = "done"
    /\ Len(batch.files) = 2
    /\ <<"USD", " ", "LIBOR", " ", "3M">> \in libors[2].names \ libors_data[2].names
    /\ <<"EURIBOR", "-", "6M">> \in non_libors["EURIBOR"].names \ non_libors_data["EURIBOR"].names
    /\ <<"USD", " ", "LIBOR", " ", "3M">> \in batch.agg_libors[2].names
    /\ <<"EURIBOR", "-", "6M">> \in batch.agg_non_libors["EURIBOR"].names

(***************************************************************************)
(* Properties of the taxonomy: what a call may change                      *)
(***************************************************************************)
\* Taxonomy b is taxonomy a with NAME added to the names of descriptor k and
\* nothing else changed.
learned_in(a, b, k, NAME) == b = [a EXCEPT ![k].names = @ \cup {NAME}]

\* What get_benchmark returns for record s on the taxonomy as it is.
resolution_of(s) ==
    get_benchmark(get_interest_rate(s).ir_data, get_currency(s), libors, non_libors,
                  None, <<>>)

\* One step of a call: what it may have changed in libors and non_libors.
TaxonomyFrame ==
    /\ (last'.op = "parse_security" /\ <<libors, non_libors>>' # <<libors, non_libors>>)
          => /\ last'.s.rate.tag = "Fltg"
             /\ passes_checks(last'.s, tracker)
             /\ resolution_of(last'.s).match_type = "root_name"
             /\ \/ /\ non_libors' = non_libors
                   /\ \E i \in DOMAIN libors :
                         learned_in(libors, libors', i, upper(last'.s.rate.text))
                \/ /\ libors' = libors
                   /\ \E bm \in DOMAIN non_libors :
                         learned_in(non_libors, non_libors', bm, upper(last'.s.rate.text))
    /\ (last'.op = "is_benchmark" /\ last'.match_type # "root_name")
          => <<libors, non_libors>>' = <<libors, non_libors>>
    /\ (last'.op = "is_benchmark" /\ last'.match_type = "root_name")
          => IF last'.part = "libors"
             THEN /\ non_libors' = non_libors
                  /\ learned_in(libors, libors', last'.idx,
                                upper(last'.ir_data["index_name"]))
             ELSE /\ libors' = libors
                  /\ learned_in(non_libors, non_libors', last'.key,
                                upper(last'.ir_data["index_name"]))
    /\ \A i \in DOMAIN libors :
          /\ libors'[i].code = libors[i].code
          /\ libors'[i].isins = libors[i].isins
          /\ libors'[i].root_names = libors[i].root_names
    /\ \A bm \in DOMAIN non_libors :
          /\ non_libors'[bm].code = non_libors[bm].code
          /\ non_libors'[bm].isins = non_libors[bm].isins
          /\ non_libors'[bm].root_names = non_libors[bm].root_names

\* C21: parse_security changes the taxonomy only for a floating record that
\* passes the checks and is matched via root_name, and then only by adding the
\* upper-cased name to the names of one descriptor; an is_benchmark call that
\* returns code, isin, name or no match changes no descriptor, one that returns
\* root_name adds the upper-cased name to its descriptor's names and nothing
\* else; codes, ISINs and root names never change.
C21_OnlyRootNameMatchLearns == [][TaxonomyFrame]_vars

\* C21's case: an is_benchmark call has matched a mixed-case name via root_name
\* and the descriptor has the upper-cased name beside the names it had, with its
\* code, ISINs and root names as they were.
C21_RootNameMatchAddedUpperName ==
    /\ matched
    /\ last.match_type = "root_name"
    /\ last.part = "non_libors" /\ last.key = "EURIBOR"
    /\ last.ir_data = name_ir(<<"Euribor", "-", "6m">>)
    /\ <<"EURIBOR", "-", "6M">> \notin last.names_before
    /\ non_libors["EURIBOR"] =
           [non_libors_data["EURIBOR"] EXCEPT
               !.names = last.names_before \cup {<<"EURIBOR", "-", "6M">>}]
    /\ libors = libors_data

(***************************************************************************)
(* Properties of build_csv                                                 *)
(***************************************************************************)
\* The files of the period that build_csv has begun are from more than one
\* publication date.
ambiguous_period == Cardinality(Range(build.dates)) > 1

\* C22: when the files found for a period are from more than one publication
\* date, build_csv raises ValueError, parse_multi_files is not called for the
\* period, so that no task of it is started, and no row is written for the
\* period.
C22_AmbiguousPeriodIsFatal ==
    ambiguous_period =>
        /\ build.pc = "failed"
        /\ build.err = "ValueError"
        /\ batch.n_batches < build.period
        /\ batch.pc # "running"
        /\ \A i \in DOMAIN batch.tasks : batch.tasks[i].runs = 0
        /\ Len(build.rows) <= build.period

\* C22's case: two files of the first period are from two dates; build_csv has
\* failed with the header row alone written and no batch begun.
C22_TwoDatesNoBatch ==
    /\ Len(build.files) = 2
    /\ build.dates = <<3, 4>>
    /\ build.period = 1
    /\ build.pc = "failed"
    /\ build.rows = <<"CSV_HEADINGS">>
    /\ batch = NoBatch

(***************************************************************************)
(* Properties of the Aggregator: what a call reads and changes             *)
(***************************************************************************)
\* The identifiers of kind k that the trackers of the last call held.
identifiers_of_inputs(k) ==
    UNION {DOMAIN inputs[i].floating_uncat[k] : i \in 1..Len(inputs)}

\* C23: the buckets of floating_uncat of the result of aggregate_trackers hold
\* exactly the identifiers that the trackers of that call hold, none from an
\* earlier call in the same process, and the call leaves every tracker it was
\* handed and TRACKER_PROTOTYPE as they were.
C23_AggregateOfItsInputsOnly ==
    aggregated =>
        /\ \A k \in IdentifierKinds :
              DOMAIN agg_floating_uncat[k] = identifiers_of_inputs(k)
        /\ prototype = last.prototype_before
        /\ \A i \in 1..Len(trackers) : pickled(trackers[i], prototype) = inputs[i]

(***************************************************************************)
(* Properties of init_tracker                                              *)
(***************************************************************************)
initialised == last.op = "init_tracker"

\* C24: the tracker that init_tracker returns has every scalar counter 0, every
\* benchmark's aggregate zero, every bucket of floating_uncat empty and no
\* last_isin, whatever was done before in the process; and parse_security on
\* one tracker leaves the benchmark aggregates and the buckets of floating_uncat
\* of the other trackers of the process as they were.
C24_InitTrackerIsZeroAndOwn ==
    /\ initialised =>
          /\ \A k \in ScalarKeys : scalar(tracker, k) = 0
          /\ \A bm \in DOMAIN benchmark_data_of(tracker, prototype) :
                benchmark_data_of(tracker, prototype)[bm] =
                    [count |-> 0, agg_maturity |-> 0, agg_nominal |-> 0]
          /\ \A k \in IdentifierKinds : floating_uncat_of(tracker, prototype)[k] = <<>>
          /\ tracker.last_isin = None
    /\ updated =>
          \A i \in 1..Len(trackers) :
              /\ benchmark_data_of(trackers[i], prototype) =
                     benchmark_data_of(trackers[i], last.prototype_before)
              /\ floating_uncat_of(trackers[i], prototype) =
                     floating_uncat_of(trackers[i], last.prototype_before)

(***************************************************************************)
(* Properties of the Resolver: the labels and the keys of a tracker        *)
(***************************************************************************)
\* C25: every benchmark that get_benchmark returns, for any rate descriptor and
\* any currency of the security, is a key of benchmark_data of a tracker.
C25_LabelIsTrackerKey ==
    (resolved_call /\ last.benchmark # "None")
    => last.benchmark \in DOMAIN benchmark_data_of(init_tracker, prototype)

(***************************************************************************)
(* Properties of the Resolver: learning and the benchmark chosen           *)
(***************************************************************************)
\* What get_benchmark returns for the arguments of the last call on the taxonomy
\* as benchmark_data defines it.
on_initial_taxonomy ==
    get_benchmark(last.ir_data, last.currency, libors_data, non_libors_data, last.isin, <<>>)

\* C26: after any sequence of get_benchmark calls on a taxonomy, get_benchmark
\* returns for any rate descriptor and currency the benchmark it returns on the
\* initial taxonomy; the match type is the same too, or name where it is
\* root_name on the initial taxonomy.
C26_LearningKeepsTheBenchmark ==
    resolved_call =>
        /\ last.benchmark = on_initial_taxonomy.benchmark
        /\ \/ last.match_type = on_initial_taxonomy.match_type
           \/ /\ on_initial_taxonomy.match_type = "root_name"
              /\ last.match_type = "name"

\* C26's case: a name that an earlier call has added to USD LIBOR is resolved
\* by name to the benchmark that the initial taxonomy gives it via root_name.
C26_LearnedNameSameBenchmark ==
    /\ resolved_call
    /\ last.ir_data = name_ir(<<"usd", " ", "libor", " ", "3m">>)
    /\ <<"USD", " ", "LIBOR", " ", "3M">> \in last.libors_before[2].names
    /\ last.match_type = "name"
    /\ on_initial_taxonomy.match_type = "root_name"
    /\ last.benchmark = "USD LIBOR"
    /\ on_initial_taxonomy.benchmark = "USD LIBOR"

(***************************************************************************)
(* The floating records of a tracker and the places they are counted in     *)
(***************************************************************************)
RECURSIVE SumOver(_, _)
SumOver(f, S) == IF S = {} THEN 0 ELSE LET x == CHOOSE y \in S : TRUE IN f[x] + SumOver(f, S \ {x})

benchmark_counts(t, proto) == LET bm == benchmark_data_of(t, proto) IN SumOver([b \in DOMAIN bm |-> bm[b].count], DOMAIN bm)

uncat_counts(t, proto) == LET un == floating_uncat_of(t, proto) IN SumOver([k \in DOMAIN un |-> SumOver(un[k], DOMAIN un[k])], DOMAIN un)

\* C27: after a Tracker update, on records whose floating rate carries one
\* identifier, the tracker's floating equals the sum of the counts of its
\* benchmarks plus the sum of the occurrence counts in the three buckets of
\* floating_uncat.
C27_FloatingIsCountedOnce ==
    updated => tracker.floating = benchmark_counts(tracker, prototype) + uncat_counts(tracker, prototype)

====
